---- MODULE Spec2Model ----
(***************************************************************************)
(* The authentication flow of app/core/auth.py over the session store of   *)
(* app/core/session_manager.py and the configuration of app/core/config.py.*)
(*                                                                         *)
(* One script run of the application calls enforce_auth_or_display_sign_in *)
(* once.  The run is modelled statement group by statement group (pc), so  *)
(* that the order of the collaborator calls and the intermediate states of *)
(* the session store are states of the model.  The collaborators (MSAL,    *)
(* PyJWT, requests, the browser) answer nondeterministically.              *)
(*                                                                         *)
(* Further specifications over the same variables: SpecTenantPolicy (the   *)
(* tenant and token functions called on their own), SpecTwoRuns (two runs  *)
(* on one session), SpecConfig (the construction of ConfigService) and     *)
(* SpecLegacy (the session manager of old_files).                          *)
(***************************************************************************)
EXTENDS Naturals, Sequences, FiniteSets, TLC

VARIABLES
    environ,       \* os.environ as ConfigService.__init__ read it
    args,          \* the arguments of a configuration lookup
    returned,      \* the value a configuration lookup returned
    current_user,  \* the legacy AuthService: _current_user
    other,         \* the locals of a second, suspended call on the same session
    config,        \* ConfigService._config: setting name -> value
    session,       \* st.session_state: key -> value, for the keys present
    query_params,  \* st.query_params: name -> value, for the names present
    redeemed,      \* identity provider: the authorization codes it has accepted
    exchangeLog,   \* history: the codes handed to acquire_token_by_authorization_code
    pc,            \* the statement the running call is at, "idle" between calls
    op,            \* the call in progress or last finished
    auth_code,     \* handle_auth_code: parameter auth_code
    access_token,  \* handle_auth_code / initialize_session: access_token
    tenant_id,     \* handle_auth_code: local tenant_id
    response,      \* get_user_info: what requests.get produced
    user_info,     \* handle_auth_code / initialize_session: user_info
    clear_idx,     \* clear_session: index of the loop over keys_to_clear
    result,        \* what the call gave its caller: a return value or a raise
    calls,         \* history: the collaborator calls of the current call, in order
    screen,        \* the elements rendered by the current script run, in order
    session0,      \* history: session when the current call started
    query_params0  \* history: query_params when the current call started

vars == << environ, args, returned, current_user, other, config, session, query_params, redeemed, exchangeLog, pc, op, auth_code,
           access_token, tenant_id, response, user_info, clear_idx, result, calls,
           screen, session0, query_params0 >>

(***************************************************************************)
(* Bounds of the model.                                                    *)
(***************************************************************************)
\* The number of token exchanges one behaviour may hold (bounds exchangeLog).
MaxExchanges == 2

(***************************************************************************)
(* Python values.  A value is a record tagged with its type, so that None, *)
(* strings and dicts can meet in one variable and be told apart.           *)
(***************************************************************************)
None == [type |-> "NoneType"]

Str(s) == [type |-> "str", str |-> s]

Dict(d) == [type |-> "dict", items |-> d]

EmptyDict == Dict(<< >>)

\* Python truthiness, as used by `if not access_token` and `if not user_info`.
Truthy(v) ==
    CASE v.type = "NoneType" -> FALSE
      [] v.type = "str"      -> v.str # ""
      [] v.type = "dict"     -> DOMAIN v.items # {}

\* d[k] = v on a dict / mapping d
SetItem(d, k, v) == [x \in (DOMAIN d) \cup {k} |-> IF x = k THEN v ELSE d[x]]

\* del d[k]
DelItem(d, k) == [x \in (DOMAIN d) \ {k} |-> d[x]]

\* the elements of a list
Elements(list) == { list[i] : i \in 1..Len(list) }

(***************************************************************************)
(* The universe the collaborators answer from.                             *)
(***************************************************************************)
Codes == {"abc", "xyz"}

\* What PyJWT finds in each token string: its header and its payload.  A
\* string that is not in the table is not a JWT at all.
JwtTable ==
    ("jwt-tenant-1" :> [header |-> [alg |-> "RS256"], payload |-> [tid |-> "tenant-1"]]) @@
    ("jwt-tenant-2" :> [header |-> [alg |-> "RS256"], payload |-> [tid |-> "tenant-2"]]) @@
    ("jwt-no-tid"   :> [header |-> [alg |-> "RS256"], payload |-> [sub |-> "user"]]) @@
    ("jwt-no-alg"   :> [header |-> [typ |-> "JWT"],   payload |-> [tid |-> "tenant-1"]])

\* The access_token values a token response may carry.
TokenStrings == (DOMAIN JwtTable) \cup {"not-a-jwt", ""}

\* The profiles the user directory may answer with.
Profiles == { Dict([displayName |-> "Alice"]), Dict([displayName |-> "Bob"]) }

\* The HTTP answers of GET /v1.0/me: a status code and the parsed JSON body
\* (None: the body is not JSON, response.json() raises).
Responses ==
    { [kind |-> "response", status_code |-> 200, body |-> b] : b \in Profiles \cup {EmptyDict, None} }
    \cup { [kind |-> "response", status_code |-> s, body |-> None] : s \in {204, 401} }
    \cup { [kind |-> "response", status_code |-> 201, body |-> Dict([displayName |-> "Alice"])] }

NoResponse == [kind |-> "none"]

TransportError == [kind |-> "raise"]

(***************************************************************************)
(* Configuration: ConfigService._config after __init__.                    *)
(***************************************************************************)
AllowLists == { << >>, << Str("tenant-1") >>, << Str("tenant-2"), Str("tenant-1") >> }

FullConfig(allowed) ==
    [ APP_CLIENT_ID     |-> Str("client-id"),
      MSAL_AUTHORITY    |-> Str("https://login.microsoftonline.com/common"),
      APP_CLIENT_SECRET |-> Str("secret"),
      MSAL_SCOPES       |-> << Str("User.Read") >>,
      MSAL_REDIRECT_URI |-> Str("http://localhost:8501"),
      ALLOWED_TENANTS   |-> allowed ]

\* The settings a deployment may have left out of its environment.
OptionalKeys == {"ALLOWED_TENANTS", "APP_CLIENT_ID", "MSAL_SCOPES"}

Configs ==
    { FullConfig(a) : a \in AllowLists }
    \cup { DelItem(FullConfig(<< Str("tenant-1") >>), k) : k \in OptionalKeys }

\* ConfigService.__getattr__: the names whose lookup raises AttributeError
Missing(names) == names \ DOMAIN config

(***************************************************************************)
(* Pure functions of app/core/auth.py and app/core/session_manager.py.     *)
(***************************************************************************)
\* SessionManager.is_authenticated: st.session_state.get('is_authenticated', False)
SessionManager_is_authenticated(s) ==
    IF "is_authenticated" \in DOMAIN s THEN s["is_authenticated"] ELSE FALSE

\* An exception on its way up: what an expression gives instead of a value.
Raise(exc) == [type |-> "raise", exc |-> exc]

\* jwt.get_unverified_header: the header of a JWT; DecodeError for anything else
jwt_get_unverified_header(token) ==
    IF token.type = "str" /\ token.str \in DOMAIN JwtTable
    THEN Dict(JwtTable[token.str].header)
    ELSE Raise("DecodeError")

\* jwt.decode(token, algorithms=[algorithm], options={"verify_signature": False})
jwt_decode(token) ==
    IF token.type = "str" /\ token.str \in DOMAIN JwtTable
    THEN Dict(JwtTable[token.str].payload)
    ELSE Raise("DecodeError")

\* decode_token, lines 274-278, the statements inside the try block
decode_token_try(token) ==
    LET header == jwt_get_unverified_header(token) IN
    IF header.type = "raise" THEN header
    ELSE IF "alg" \notin DOMAIN header.items THEN Raise("KeyError")
    ELSE jwt_decode(token)

\* decode_token without its except clause
decode_token_unguarded(token) == decode_token_try(token)

\* decode_token: the claims of the token; except Exception: None
decode_token(token) ==
    IF decode_token_try(token).type = "raise" THEN None ELSE decode_token_try(token)

\* get_tenant_id_from_token, lines 224-225, the statements inside the try block
get_tenant_id_from_token_try(token) ==
    LET decoded_token == decode_token(token) IN
    IF decoded_token.type = "raise" THEN decoded_token
    ELSE IF decoded_token = None THEN Raise("TypeError")
    ELSE IF "tid" \notin DOMAIN decoded_token.items THEN Raise("KeyError")
    ELSE Str(decoded_token.items["tid"])

\* get_tenant_id_from_token: decoded_token['tid']; except Exception: None
get_tenant_id_from_token(token) ==
    IF get_tenant_id_from_token_try(token).type = "raise"
    THEN None
    ELSE get_tenant_id_from_token_try(token)

\* str.lower() on the tenant ids of the model
Lower(v) == IF v = Str("TENANT-1") THEN Str("tenant-1") ELSE v

\* is_allowed_tenant comparing without regard to case
is_allowed_tenant_ignoring_case(tenant) ==
    Lower(tenant) \in { Lower(x) : x \in Elements(config["ALLOWED_TENANTS"]) }

\* is_allowed_tenant: tenant_id in config.ALLOWED_TENANTS
is_allowed_tenant(tenant) == tenant \in Elements(config["ALLOWED_TENANTS"])

\* The settings get_auth_url and the client construction read.
ClientKeys == {"APP_CLIENT_ID", "MSAL_AUTHORITY", "APP_CLIENT_SECRET"}

UrlKeys == ClientKeys \cup {"MSAL_SCOPES", "MSAL_REDIRECT_URI"}

\* get_auth_url: the ways it can end.  A missing setting raises AttributeError;
\* otherwise MSAL builds the URL, or raises (authority discovery failed).
get_auth_url_outcomes ==
    IF Missing(UrlKeys) # {} THEN {"raise AttributeError"}
    ELSE {"ok", "raise MsalError"}

\* get_auth_url: the URL, by what MSAL builds it from.
get_auth_url ==
    [ client_id    |-> config["APP_CLIENT_ID"],
      scopes       |-> config["MSAL_SCOPES"],
      redirect_uri |-> config["MSAL_REDIRECT_URI"] ]

\* The results a call can give its caller.
Returns == {"True", "False", "None"}

Raises == {"raise AttributeError", "raise MsalError", "raise RequestException",
           "raise JSONDecodeError"}

\* Rendered elements.
Title(t) == [kind |-> "title", text |-> t]

Error(t) == [kind |-> "error", text |-> t]

Write(t) == [kind |-> "write", text |-> t]

Link(t, url) == [kind |-> "link", text |-> t, href |-> url]

SignInElements ==
    << Title("Microsoft"), [kind |-> "subheader", text |-> "Azure Fed Demo Platform"],
       Write("Welcome to the Microsoft Azure Fed Demo Platform. Please sign in with an authorized account.") >>

InvalidTenantElements ==
    << Title("Access Denied"),
       Error("Your account is not authorized to access this application."),
       Write("This application is only available to specific Microsoft tenants."),
       Write("If you believe this is an error, please contact your administrator.") >>

(***************************************************************************)
(* Initial state: the configuration is loaded, the session store and the   *)
(* query parameters are empty, nothing has been called.                    *)
(***************************************************************************)
\* The locals of a call that has not started.
IdleFrame ==
    [ pc |-> "idle", op |-> "none", auth_code |-> None, access_token |-> None,
      tenant_id |-> None, response |-> NoResponse, user_info |-> None,
      clear_idx |-> 0, result |-> "none", calls |-> << >>, screen |-> << >>,
      session0 |-> << >>, query_params0 |-> << >> ]

\* os.environ is read by ConfigService.__init__ alone: once the configuration
\* is loaded the application never looks at it, and it is left out.
NoEnviron == << >>

Init ==
    /\ environ = NoEnviron
    /\ args = << >>
    /\ returned = None
    /\ current_user = None
    /\ other = IdleFrame
    /\ config \in Configs
    /\ session = << >>
    /\ query_params = << >>
    /\ redeemed = {}
    /\ exchangeLog = << >>
    /\ pc = "idle"
    /\ op = "none"
    /\ auth_code = None
    /\ access_token = None
    /\ tenant_id = None
    /\ response = NoResponse
    /\ user_info = None
    /\ clear_idx = 0
    /\ result = "none"
    /\ calls = << >>
    /\ screen = << >>
    /\ session0 = << >>
    /\ query_params0 = << >>

\* A call starts: its locals are fresh, the history of the call is empty.
StartCall(name) ==
    /\ pc = "idle"
    /\ op' = name
    /\ calls' = << >>
    /\ tenant_id' = None
    /\ response' = NoResponse
    /\ clear_idx' = 0
    /\ session0' = session
    /\ query_params0' = query_params

\* The running call ends: it returns or raises r.
EndCall(r) ==
    /\ pc' = "idle"
    /\ result' = r

(***************************************************************************)
(* The browser.                                                            *)
(***************************************************************************)
\* The query parameters the browser can arrive with: none, the identity
\* provider's redirect (code and state), or some other parameter.
QueryParamSets ==
    { << >>, [page |-> "home"] }
    \cup { [code |-> c, state |-> "s"] : c \in Codes }

\* The user follows a link or the identity provider redirects back: the URL's
\* query parameters are what st.query_params reads next.  The history of the
\* last call is dropped: it described the script run that is now replaced.
Navigate(q) ==
    /\ pc = "idle"
    /\ query_params # q
    /\ query_params' = q
    /\ op' = "none"
    /\ result' = "none"
    /\ auth_code' = None
    /\ access_token' = None
    /\ tenant_id' = None
    /\ response' = NoResponse
    /\ user_info' = None
    /\ clear_idx' = 0
    /\ calls' = << >>
    /\ screen' = << >>
    /\ session0' = << >>
    /\ query_params0' = << >>
    /\ UNCHANGED << environ, args, returned, current_user, other, config, session, redeemed, exchangeLog, pc >>

(***************************************************************************)
(* enforce_auth_or_display_sign_in                                         *)
(***************************************************************************)
\* enforce_auth_or_display_sign_in with its two tests in the other order: the
\* code in the query parameters is looked at before the session is.
enforce_code_first ==
    /\ StartCall("enforce_auth_or_display_sign_in")
    /\ Len(exchangeLog) < MaxExchanges
    /\ screen' = << >>
    /\ access_token' = None
    /\ user_info' = None
    /\ IF "code" \in DOMAIN query_params
       THEN /\ pc' = "get_token_from_code"
            /\ result' = "none"
            /\ auth_code' = Str(query_params["code"])
       ELSE IF SessionManager_is_authenticated(session)
       THEN /\ EndCall("True")
            /\ auth_code' = None
       ELSE /\ pc' = "display_sign_in_screen"
            /\ result' = "none"
            /\ auth_code' = None
    /\ UNCHANGED << environ, args, returned, current_user, other, config, session, query_params, redeemed, exchangeLog >>

\* enforce_auth_or_display_sign_in tidying the URL on its way out: the
\* authenticated branch clears the query parameters before it returns True.
enforce_clears_query_params ==
    /\ StartCall("enforce_auth_or_display_sign_in")
    /\ Len(exchangeLog) < MaxExchanges
    /\ screen' = << >>
    /\ access_token' = None
    /\ user_info' = None
    /\ IF SessionManager_is_authenticated(session)
       THEN /\ EndCall("True")
            /\ auth_code' = None
            /\ query_params' = << >>
       ELSE IF "code" \in DOMAIN query_params
       THEN /\ pc' = "get_token_from_code"
            /\ result' = "none"
            /\ auth_code' = Str(query_params["code"])
            /\ UNCHANGED query_params
       ELSE /\ pc' = "display_sign_in_screen"
            /\ result' = "none"
            /\ auth_code' = None
            /\ UNCHANGED query_params
    /\ UNCHANGED << environ, args, returned, current_user, other, config, session, redeemed, exchangeLog >>

\* lines 65-72: the branch.  Authenticated: return True.  A code in the query
\* parameters: handle_auth_code(code).  Otherwise: the sign-in screen.
enforce_auth_or_display_sign_in ==
    /\ StartCall("enforce_auth_or_display_sign_in")
    /\ Len(exchangeLog) < MaxExchanges
    /\ screen' = << >>
    /\ access_token' = None
    /\ user_info' = None
    /\ IF SessionManager_is_authenticated(session)
       THEN /\ EndCall("True")
            /\ auth_code' = None
       ELSE IF "code" \in DOMAIN query_params
       THEN /\ pc' = "get_token_from_code"
            /\ result' = "none"
            /\ auth_code' = Str(query_params["code"])
       ELSE /\ pc' = "display_sign_in_screen"
            /\ result' = "none"
            /\ auth_code' = None
    /\ UNCHANGED << environ, args, returned, current_user, other, config, session, query_params, redeemed, exchangeLog >>

(***************************************************************************)
(* get_token_from_code                                                     *)
(***************************************************************************)
\* What acquire_token_by_authorization_code can do with a code: raise, return
\* an error result (no "access_token" in it), or, for a code the identity
\* provider has not accepted before, return a token.
TokenAnswers(code) ==
    { [kind |-> "raise"], [kind |-> "error"] }
    \cup (IF code \in redeemed THEN {}
          ELSE { [kind |-> "token", access_token |-> t] : t \in TokenStrings })

\* lines 194-210.  The client is constructed outside the try block: a missing
\* setting or a failing construction raises to the caller.  Inside the try
\* block every exception is caught and None returned.
get_token_from_code ==
    /\ pc = "get_token_from_code"
    /\ IF Missing(ClientKeys) # {}
       THEN /\ EndCall("raise AttributeError")
            /\ UNCHANGED << calls, access_token, redeemed, exchangeLog >>
       ELSE \/ /\ calls' = Append(calls, "ConfidentialClientApplication")
               /\ EndCall("raise MsalError")
               /\ UNCHANGED << access_token, redeemed, exchangeLog >>
            \/ /\ Missing({"MSAL_SCOPES", "MSAL_REDIRECT_URI"}) # {}
               /\ calls' = Append(calls, "ConfidentialClientApplication")
               /\ access_token' = None
               /\ pc' = "handle_auth_code_94"
               /\ UNCHANGED << result, redeemed, exchangeLog >>
            \/ /\ Missing({"MSAL_SCOPES", "MSAL_REDIRECT_URI"}) = {}
               /\ \E answer \in TokenAnswers(auth_code.str) :
                     /\ access_token' = IF answer.kind = "token"
                                        THEN Str(answer.access_token)
                                        ELSE None
                     /\ redeemed' = IF answer.kind = "token"
                                    THEN redeemed \cup {auth_code.str}
                                    ELSE redeemed
               /\ calls' = calls \o << "ConfidentialClientApplication",
                                       "acquire_token_by_authorization_code" >>
               /\ exchangeLog' = Append(exchangeLog, auth_code.str)
               /\ pc' = "handle_auth_code_94"
               /\ UNCHANGED result
    /\ UNCHANGED << environ, args, returned, current_user, other, config, session, query_params, op, auth_code, tenant_id, response,
                    user_info, clear_idx, screen, session0, query_params0 >>

(***************************************************************************)
(* handle_auth_code                                                        *)
(***************************************************************************)
\* handle_auth_code lines 94-98 keeping the token it was given: the token is
\* put in the session as soon as it is there.
handle_auth_code_94_keeps_token ==
    /\ pc = "handle_auth_code_94"
    /\ query_params' = << >>
    /\ IF ~Truthy(access_token)
       THEN /\ screen' = Append(screen, Error("Authentication failed."))
            /\ EndCall("False")
            /\ UNCHANGED session
       ELSE /\ pc' = "handle_auth_code_100"
            /\ session' = SetItem(session, "access_token", access_token)
            /\ UNCHANGED << screen, result >>
    /\ UNCHANGED << environ, args, returned, current_user, other, config, redeemed, exchangeLog, op, auth_code, access_token,
                    tenant_id, response, user_info, clear_idx, calls, session0,
                    query_params0 >>

\* handle_auth_code lines 94-98 logging the user out when there is no token:
\* the failure path empties the session store.
handle_auth_code_94_clears_session ==
    /\ pc = "handle_auth_code_94"
    /\ query_params' = << >>
    /\ IF ~Truthy(access_token)
       THEN /\ screen' = Append(screen, Error("Authentication failed."))
            /\ session' = << >>
            /\ EndCall("False")
       ELSE /\ pc' = "handle_auth_code_100"
            /\ UNCHANGED << session, screen, result >>
    /\ UNCHANGED << environ, args, returned, current_user, other, config, redeemed, exchangeLog, op, auth_code, access_token,
                    tenant_id, response, user_info, clear_idx, calls, session0,
                    query_params0 >>

\* handle_auth_code lines 94-98 testing `access_token is None` instead of
\* `not access_token`: an empty string passes.
handle_auth_code_94_is_none ==
    /\ pc = "handle_auth_code_94"
    /\ query_params' = << >>
    /\ IF access_token = None
       THEN /\ screen' = Append(screen, Error("Authentication failed."))
            /\ EndCall("False")
       ELSE /\ pc' = "handle_auth_code_100"
            /\ UNCHANGED << screen, result >>
    /\ UNCHANGED << environ, args, returned, current_user, other, config, session, redeemed, exchangeLog, op, auth_code, access_token,
                    tenant_id, response, user_info, clear_idx, calls, session0,
                    query_params0 >>

\* lines 94-98: clear the query parameters; no token: error message, False.
handle_auth_code_94 ==
    /\ pc = "handle_auth_code_94"
    /\ query_params' = << >>
    /\ IF ~Truthy(access_token)
       THEN /\ screen' = Append(screen, Error("Authentication failed."))
            /\ EndCall("False")
       ELSE /\ pc' = "handle_auth_code_100"
            /\ UNCHANGED << screen, result >>
    /\ UNCHANGED << environ, args, returned, current_user, other, config, session, redeemed, exchangeLog, op, auth_code, access_token,
                    tenant_id, response, user_info, clear_idx, calls, session0,
                    query_params0 >>

\* handle_auth_code lines 100-105 without the return after the invalid-tenant
\* test: the flow goes on to the profile whatever the tenant is.
handle_auth_code_100_no_return ==
    /\ pc = "handle_auth_code_100"
    /\ tenant_id' = get_tenant_id_from_token(access_token)
    /\ IF Missing({"ALLOWED_TENANTS"}) # {}
       THEN /\ calls' = Append(calls, "decode_token")
            /\ EndCall("raise AttributeError")
       ELSE /\ calls' = calls \o << "decode_token", "is_allowed_tenant" >>
            /\ pc' = "get_user_info"
            /\ UNCHANGED result
    /\ UNCHANGED << environ, args, returned, current_user, other, config, session, query_params, redeemed, exchangeLog, op, auth_code,
                    access_token, response, user_info, clear_idx, screen, session0,
                    query_params0 >>

\* handle_auth_code lines 100-105 remembering the tenant it turned down: the
\* tenant id is appended to config.ALLOWED_TENANTS.
handle_auth_code_100_appends_tenant ==
    /\ pc = "handle_auth_code_100"
    /\ tenant_id' = get_tenant_id_from_token(access_token)
    /\ IF Missing({"ALLOWED_TENANTS"}) # {}
       THEN /\ calls' = Append(calls, "decode_token")
            /\ EndCall("raise AttributeError")
            /\ UNCHANGED config
       ELSE /\ calls' = calls \o << "decode_token", "is_allowed_tenant" >>
            /\ pc' = IF ~is_allowed_tenant(tenant_id')
                     THEN "display_invalid_tenant_screen"
                     ELSE "get_user_info"
            /\ config' = IF ~is_allowed_tenant(tenant_id')
                         THEN SetItem(config, "ALLOWED_TENANTS",
                                      Append(config["ALLOWED_TENANTS"], tenant_id'))
                         ELSE config
            /\ UNCHANGED result
    /\ UNCHANGED << environ, args, returned, current_user, other, session, query_params, redeemed, exchangeLog, op, auth_code,
                    access_token, response, user_info, clear_idx, screen, session0,
                    query_params0 >>

\* lines 100-105: the tenant id of the token; config.ALLOWED_TENANTS is read
\* (line 102) before is_allowed_tenant is called; a tenant that is not allowed
\* goes to the invalid-tenant screen.
handle_auth_code_100 ==
    /\ pc = "handle_auth_code_100"
    /\ tenant_id' = get_tenant_id_from_token(access_token)
    /\ IF Missing({"ALLOWED_TENANTS"}) # {}
       THEN /\ calls' = Append(calls, "decode_token")
            /\ EndCall("raise AttributeError")
       ELSE /\ calls' = calls \o << "decode_token", "is_allowed_tenant" >>
            /\ pc' = IF ~is_allowed_tenant(tenant_id')
                     THEN "display_invalid_tenant_screen"
                     ELSE "get_user_info"
            /\ UNCHANGED result
    /\ UNCHANGED << environ, args, returned, current_user, other, config, session, query_params, redeemed, exchangeLog, op, auth_code,
                    access_token, response, user_info, clear_idx, screen, session0,
                    query_params0 >>

\* lines 140-159, then line 105: the access-denied screen, whose link needs
\* get_auth_url; return False.
display_invalid_tenant_screen ==
    /\ pc = "display_invalid_tenant_screen"
    /\ \E outcome \in get_auth_url_outcomes :
          /\ calls' = Append(calls, "get_auth_url")
          /\ IF outcome = "ok"
             THEN /\ screen' = screen \o InvalidTenantElements
                               \o << Link("Sign In with a Different Account", get_auth_url) >>
                  /\ EndCall("False")
             ELSE /\ screen' = screen \o InvalidTenantElements
                  /\ EndCall(outcome)
    /\ UNCHANGED << environ, args, returned, current_user, other, config, session, query_params, redeemed, exchangeLog, op, auth_code,
                    access_token, tenant_id, response, user_info, clear_idx, session0,
                    query_params0 >>

\* lines 116-137, then line 74: the sign-in screen, whose link needs
\* get_auth_url; return False.
display_sign_in_screen ==
    /\ pc = "display_sign_in_screen"
    /\ \E outcome \in get_auth_url_outcomes :
          /\ calls' = Append(calls, "get_auth_url")
          /\ IF outcome = "ok"
             THEN /\ screen' = screen \o SignInElements
                               \o << Link("Sign In", get_auth_url) >>
                  /\ EndCall("False")
             ELSE /\ screen' = screen \o SignInElements
                  /\ EndCall(outcome)
    /\ UNCHANGED << environ, args, returned, current_user, other, config, session, query_params, redeemed, exchangeLog, op, auth_code,
                    access_token, tenant_id, response, user_info, clear_idx, session0,
                    query_params0 >>

\* get_user_info taking every 2xx status for a success.
get_user_info_any_2xx ==
    /\ pc = "get_user_info"
    /\ calls' = Append(calls, "requests.get")
    /\ \E r \in Responses \cup {TransportError} :
          /\ response' = r
          /\ IF r = TransportError
             THEN /\ EndCall("raise RequestException")
                  /\ UNCHANGED user_info
             ELSE IF r.status_code \in {200, 201, 204}
             THEN IF r.body = None
                  THEN /\ EndCall("raise JSONDecodeError")
                       /\ UNCHANGED user_info
                  ELSE /\ user_info' = r.body
                       /\ pc' = "handle_auth_code_108"
                       /\ UNCHANGED result
             ELSE /\ user_info' = None
                  /\ pc' = "handle_auth_code_108"
                  /\ UNCHANGED result
    /\ UNCHANGED << environ, args, returned, current_user, other, config, session, query_params, redeemed, exchangeLog, op, auth_code,
                    access_token, tenant_id, clear_idx, screen, session0, query_params0 >>

\* lines 107, 254-260: requests.get raises (nothing catches it), or answers;
\* status 200: response.json(), which raises on a body that is not JSON;
\* any other status: None.
get_user_info ==
    /\ pc = "get_user_info"
    /\ calls' = Append(calls, "requests.get")
    /\ \E r \in Responses \cup {TransportError} :
          /\ response' = r
          /\ IF r = TransportError
             THEN /\ EndCall("raise RequestException")
                  /\ UNCHANGED user_info
             ELSE IF r.status_code = 200
             THEN IF r.body = None
                  THEN /\ EndCall("raise JSONDecodeError")
                       /\ UNCHANGED user_info
                  ELSE /\ user_info' = r.body
                       /\ pc' = "handle_auth_code_108"
                       /\ UNCHANGED result
             ELSE /\ user_info' = None
                  /\ pc' = "handle_auth_code_108"
                  /\ UNCHANGED result
    /\ UNCHANGED << environ, args, returned, current_user, other, config, session, query_params, redeemed, exchangeLog, op, auth_code,
                    access_token, tenant_id, clear_idx, screen, session0, query_params0 >>

\* handle_auth_code lines 108-112 without the test of user_info: the session
\* is initialized with whatever get_user_info returned.
handle_auth_code_108_no_test ==
    /\ pc = "handle_auth_code_108"
    /\ calls' = Append(calls, "initialize_session")
    /\ pc' = "initialize_session_52"
    /\ UNCHANGED << environ, args, returned, current_user, other, config, session, query_params, redeemed, exchangeLog, op, auth_code,
                    access_token, tenant_id, response, user_info, clear_idx, result,
                    screen, session0, query_params0 >>

\* lines 108-112: no user info: error message, False; otherwise
\* SessionManager.initialize_session(access_token, user_info).
handle_auth_code_108 ==
    /\ pc = "handle_auth_code_108"
    /\ IF ~Truthy(user_info)
       THEN /\ screen' = Append(screen, Error("Failed to retrieve user information."))
            /\ EndCall("False")
            /\ UNCHANGED calls
       ELSE /\ calls' = Append(calls, "initialize_session")
            /\ pc' = "initialize_session_52"
            /\ UNCHANGED << screen, result >>
    /\ UNCHANGED << environ, args, returned, current_user, other, config, session, query_params, redeemed, exchangeLog, op, auth_code,
                    access_token, tenant_id, response, user_info, clear_idx, session0,
                    query_params0 >>

(***************************************************************************)
(* SessionManager                                                          *)
(***************************************************************************)
\* initialize_session setting the flag first: line 56 moved before line 52.
initialize_session_52_flag_first ==
    /\ pc = "initialize_session_52"
    /\ session' = SetItem(SetItem(session, "is_authenticated", TRUE),
                          "access_token", access_token)
    /\ pc' = "initialize_session_55"
    /\ UNCHANGED << environ, args, returned, current_user, other, config, query_params, redeemed, exchangeLog, op, auth_code,
                    access_token, tenant_id, response, user_info, clear_idx, result,
                    calls, screen, session0, query_params0 >>

\* initialize_session line 52 keeping a token the session already holds.
initialize_session_52_keeps_old ==
    /\ pc = "initialize_session_52"
    /\ session' = IF "access_token" \in DOMAIN session
                  THEN session
                  ELSE SetItem(session, "access_token", access_token)
    /\ pc' = "initialize_session_55"
    /\ UNCHANGED << environ, args, returned, current_user, other, config, query_params, redeemed, exchangeLog, op, auth_code,
                    access_token, tenant_id, response, user_info, clear_idx, result,
                    calls, screen, session0, query_params0 >>

\* initialize_session, line 52: st.session_state.access_token = access_token
initialize_session_52 ==
    /\ pc = "initialize_session_52"
    /\ session' = SetItem(session, "access_token", access_token)
    /\ pc' = "initialize_session_55"
    /\ UNCHANGED << environ, args, returned, current_user, other, config, query_params, redeemed, exchangeLog, op, auth_code,
                    access_token, tenant_id, response, user_info, clear_idx, result,
                    calls, screen, session0, query_params0 >>

\* initialize_session, line 55: st.session_state.user_info = user_info
initialize_session_55 ==
    /\ pc = "initialize_session_55"
    /\ session' = SetItem(session, "user_info", user_info)
    /\ pc' = "initialize_session_56"
    /\ UNCHANGED << environ, args, returned, current_user, other, config, query_params, redeemed, exchangeLog, op, auth_code,
                    access_token, tenant_id, response, user_info, clear_idx, result,
                    calls, screen, session0, query_params0 >>

\* initialize_session without line 56: the flag is never set.
initialize_session_56_no_flag ==
    /\ pc = "initialize_session_56"
    /\ EndCall(IF op = "enforce_auth_or_display_sign_in" THEN "True" ELSE "None")
    /\ UNCHANGED << environ, args, returned, current_user, other, config, session, query_params, redeemed, exchangeLog, op,
                    auth_code, access_token, tenant_id, response, user_info, clear_idx, calls,
                    screen, session0, query_params0 >>

\* initialize_session, line 56: st.session_state.is_authenticated = True; the
\* method returns None, and handle_auth_code (line 113) then returns True.
initialize_session_56 ==
    /\ pc = "initialize_session_56"
    /\ session' = SetItem(session, "is_authenticated", TRUE)
    /\ EndCall(IF op = "enforce_auth_or_display_sign_in" THEN "True" ELSE "None")
    /\ UNCHANGED << environ, args, returned, current_user, other, config, query_params, redeemed, exchangeLog, op, auth_code,
                    access_token, tenant_id, response, user_info, clear_idx, calls,
                    screen, session0, query_params0 >>

\* The tokens and profiles a caller can hand to initialize_session.
SessionTokens == { Str("jwt-tenant-1"), Str("jwt-tenant-2") }

\* SessionManager.initialize_session(token, info) called by the application.
SessionManager_initialize_session(token, info) ==
    /\ StartCall("initialize_session")
    /\ access_token' = token
    /\ user_info' = info
    /\ auth_code' = None
    /\ result' = "none"
    /\ pc' = "initialize_session_52"
    /\ UNCHANGED << environ, args, returned, current_user, other, config, session, query_params, redeemed, exchangeLog, screen >>

\* clear_session, line 70
keys_to_clear == << "user_info", "is_authenticated", "session_log_info" >>

\* SessionManager.clear_session() called by the application (logout).
SessionManager_clear_session ==
    /\ StartCall("clear_session")
    /\ access_token' = None
    /\ user_info' = None
    /\ auth_code' = None
    /\ result' = "none"
    /\ pc' = "clear_session_73"
    /\ UNCHANGED << environ, args, returned, current_user, other, config, session, query_params, redeemed, exchangeLog, screen >>

\* clear_session, lines 73-75: one turn of the loop over keys_to_clear; after
\* the last key the method returns None.
clear_session_73 ==
    /\ pc = "clear_session_73"
    /\ IF clear_idx < Len(keys_to_clear)
       THEN /\ clear_idx' = clear_idx + 1
            /\ session' = IF keys_to_clear[clear_idx + 1] \in DOMAIN session
                          THEN DelItem(session, keys_to_clear[clear_idx + 1])
                          ELSE session
            /\ UNCHANGED << pc, result >>
       ELSE /\ EndCall("None")
            /\ UNCHANGED << clear_idx, session >>
    /\ UNCHANGED << environ, args, returned, current_user, other, config, query_params, redeemed, exchangeLog, op, auth_code,
                    access_token, tenant_id, response, user_info, calls, screen,
                    session0, query_params0 >>

(***************************************************************************)
(* The specification.                                                      *)
(***************************************************************************)
Next ==
    \/ \E q \in QueryParamSets : Navigate(q)
    \/ enforce_auth_or_display_sign_in
    \/ get_token_from_code
    \/ handle_auth_code_94
    \/ handle_auth_code_100
    \/ display_invalid_tenant_screen
    \/ display_sign_in_screen
    \/ get_user_info
    \/ handle_auth_code_108
    \/ initialize_session_52
    \/ initialize_session_55
    \/ initialize_session_56
    \/ \E token \in SessionTokens, info \in Profiles :
          SessionManager_initialize_session(token, info)
    \/ SessionManager_clear_session
    \/ clear_session_73

Spec == Init /\ [][Next]_vars

(***************************************************************************)
(* Vocabulary of the properties.                                           *)
(***************************************************************************)
\* the call in progress, or the one that just ended, is the auth flow
InEnforce == op = "enforce_auth_or_display_sign_in"

\* ... and it went into handle_auth_code (the session was unauthenticated and
\* the query parameters held a code)
InHandleAuthCode == InEnforce /\ auth_code # None

\* the call has ended: it returned or raised
Ended == pc = "idle" /\ result # "none"

Authenticated(s) == SessionManager_is_authenticated(s)

Called(name) == name \in Elements(calls)

Shown(element) == element \in Elements(screen)

IsPrefix(s, t) == Len(s) <= Len(t) /\ SubSeq(t, 1, Len(s)) = s

\* the collaborator calls of a handle_auth_code that goes all the way
CallOrder ==
    << "ConfidentialClientApplication", "acquire_token_by_authorization_code",
       "decode_token", "is_allowed_tenant", "requests.get", "initialize_session" >>

\* the tenant test of line 103 has been made and the tenant was turned down
TenantRejected ==
    /\ Called("is_allowed_tenant")
    /\ tenant_id \notin Elements(config["ALLOWED_TENANTS"])

(***************************************************************************)
(* C1.  In a handle_auth_code on an unauthenticated session, is_authenticated*)
(* is true only if the four steps succeeded in order: the exchange returned *)
(* a token, the tenant id was extracted from it, the tenant id is in        *)
(* ALLOWED_TENANTS, the profile fetch returned a profile.  A call that ends *)
(* any other way than returning True leaves is_authenticated false.         *)
(***************************************************************************)
C1_AuthenticatedOnlyAfterFourSteps ==
    (InHandleAuthCode /\ ~Authenticated(session0)) =>
        /\ Authenticated(session) =>
              /\ Truthy(access_token)
              /\ tenant_id # None
              /\ tenant_id = get_tenant_id_from_token(access_token)
              /\ "ALLOWED_TENANTS" \in DOMAIN config
              /\ tenant_id \in Elements(config["ALLOWED_TENANTS"])
              /\ response.kind = "response"
              /\ response.status_code = 200
              /\ Truthy(user_info)
              /\ calls = CallOrder
        /\ (Ended /\ result # "True") => ~Authenticated(session)

C1_Witness ==
    /\ InHandleAuthCode
    /\ ~Authenticated(session0)
    /\ Ended
    /\ result = "True"
    /\ Authenticated(session)

(***************************************************************************)
(* C2.  A handle_auth_code that fails writes no session field: until       *)
(* initialize_session is entered, and when the call has ended without      *)
(* returning True, the session store is what it was when the call started. *)
(***************************************************************************)
C2_FailureWritesNoSessionField ==
    (InHandleAuthCode /\ ~Called("initialize_session")) => session = session0

C2_Witness ==
    /\ InHandleAuthCode
    /\ Ended
    /\ result = "False"
    /\ Truthy(access_token)
    /\ Called("requests.get")
    /\ "access_token" \notin DOMAIN session

C4_AuthenticatedReturnsAtOnce ==
    (InEnforce /\ Authenticated(session0)) =>
        /\ pc = "idle"
        /\ result = "True"
        /\ calls = << >>
        /\ screen = << >>
        /\ session = session0
        /\ query_params = query_params0

C4_Witness ==
    /\ InEnforce
    /\ Authenticated(session0)
    /\ "code" \in DOMAIN query_params0
    /\ Ended

(***************************************************************************)
(* C5.  enforce_auth_or_display_sign_in never raises: it ends by returning *)
(* a boolean, and a False comes with a rendered message or screen.         *)
(***************************************************************************)
C5_NeverRaises ==
    (InEnforce /\ Ended) =>
        /\ result \in {"True", "False"}
        /\ (result = "False" => screen # << >>)

(***************************************************************************)
(* C6.  A transport error of the profile request is a profile-fetch        *)
(* failure: handle_auth_code returns False, the failure message is shown   *)
(* and the session is left unauthenticated.                                *)
(***************************************************************************)
C6_TransportErrorIsProfileFailure ==
    (InHandleAuthCode /\ Ended /\ response = TransportError) =>
        /\ result = "False"
        /\ Shown(Error("Failed to retrieve user information."))
        /\ ~Authenticated(session)

(***************************************************************************)
(* C7.  The steps of handle_auth_code run in the order token exchange,     *)
(* tenant-claim extraction, allow-list test, profile fetch, session commit,*)
(* and the first failing step ends the flow: no token, then no decoding    *)
(* and no profile fetch; tenant turned down, then no profile fetch; the    *)
(* session is committed only after the profile fetch succeeded.            *)
(***************************************************************************)
C7_StepsInOrderFailFast ==
    InHandleAuthCode =>
        /\ \/ IsPrefix(calls, CallOrder)
           \/ calls = SubSeq(CallOrder, 1, 4) \o << "get_auth_url" >>
        /\ (pc # "get_token_from_code" /\ ~Truthy(access_token)) =>
              /\ ~Called("decode_token")
              /\ ~Called("requests.get")
              /\ ~Called("initialize_session")
        /\ ("ALLOWED_TENANTS" \in DOMAIN config /\ TenantRejected) =>
              /\ ~Called("requests.get")
              /\ ~Called("initialize_session")
        /\ (Called("initialize_session") \/ session # session0) =>
              /\ Called("requests.get")
              /\ response.kind = "response"
              /\ response.status_code = 200
              /\ Truthy(user_info)

C7_Witness ==
    /\ InHandleAuthCode
    /\ Ended
    /\ result = "False"
    /\ calls = SubSeq(CallOrder, 1, 2)
    /\ ~Truthy(access_token)

(***************************************************************************)
(* C8.  A token whose tenant id is not in ALLOWED_TENANTS: handle_auth_code*)
(* returns False, the session stays unauthenticated, the profile is not    *)
(* fetched, and the access-denied screen with its link to sign in with a   *)
(* different account is shown, not the generic error message.              *)
(***************************************************************************)
C8_TenantRejectedScreen ==
    ( /\ InHandleAuthCode
      /\ Ended
      /\ "ALLOWED_TENANTS" \in DOMAIN config
      /\ tenant_id # None
      /\ TenantRejected ) =>
        /\ result = "False"
        /\ ~Authenticated(session)
        /\ ~Called("requests.get")
        /\ Shown(Title("Access Denied"))
        /\ Shown(Link("Sign In with a Different Account", get_auth_url))
        /\ ~Shown(Error("Authentication failed."))

(***************************************************************************)
(* C9.  A token that cannot be decoded or has no tid claim: when           *)
(* handle_auth_code returns, the generic authentication-failed message is  *)
(* shown and the access-denied screen is not.                              *)
(***************************************************************************)
C9_ClaimExtractionFailureIsGeneric ==
    ( /\ InHandleAuthCode
      /\ Ended
      /\ result \in Returns
      /\ Called("decode_token")
      /\ tenant_id = None ) =>
        /\ result = "False"
        /\ Shown(Error("Authentication failed."))
        /\ ~Shown(Title("Access Denied"))

(***************************************************************************)
(* C10.  When enforce_auth_or_display_sign_in has processed a code query   *)
(* parameter, the code parameter is absent from the query parameters,      *)
(* however the call ended.                                                 *)
(***************************************************************************)
C10_CodeAbsentAfterProcessing ==
    (InHandleAuthCode /\ Ended) => "code" \notin DOMAIN query_params

(***************************************************************************)
(* The functions of the flow called on their own.  Each specification      *)
(* below draws the inputs in its initial state or in its call actions and  *)
(* applies the function as the code does.                                  *)
(***************************************************************************)
\* No call has been made on the session: the locals and histories are fresh.
NothingCalled ==
    /\ args = << >>
    /\ returned = None
    /\ current_user = None
    /\ other = IdleFrame
    /\ session = << >>
    /\ query_params = << >>
    /\ redeemed = {}
    /\ exchangeLog = << >>
    /\ pc = "idle"
    /\ op = "none"
    /\ auth_code = None
    /\ access_token = None
    /\ tenant_id = None
    /\ response = NoResponse
    /\ user_info = None
    /\ clear_idx = 0
    /\ result = "none"
    /\ calls = << >>
    /\ screen = << >>
    /\ session0 = << >>
    /\ query_params0 = << >>

\* Python's bool as the caller sees it
Bool(b) == IF b THEN "True" ELSE "False"

(***************************************************************************)
(* Tenant policy: is_allowed_tenant on any tenant id and allow-list.       *)
(***************************************************************************)
\* The longest allow-list configured.
MaxAllowListLen == 2

\* The tenant ids a deployment lists; _convert_lists has stripped them.
ListedTenants == {"tenant-1", "TENANT-1", "tenant-2"}

\* The tenant ids is_allowed_tenant can be asked about: listed ones, one that
\* differs from a listed one by surrounding whitespace, and None.
AskedTenants == { Str(t) : t \in ListedTenants \cup {" tenant-1 "} } \cup {None}

\* The lists without repetition of at most n listed tenants.
AllowListsUpTo(n) ==
    UNION { { l \in [1..k -> { Str(t) : t \in ListedTenants }] :
                \A i, j \in 1..k : i # j => l[i] # l[j] } : k \in 0..n }

PolicyConfigs ==
    { FullConfig(l) : l \in AllowListsUpTo(MaxAllowListLen) }
    \cup { DelItem(FullConfig(<< >>), "ALLOWED_TENANTS") }

InitTenantPolicy ==
    /\ environ = NoEnviron
    /\ config \in PolicyConfigs
    /\ NothingCalled

\* AuthService.is_allowed_tenant (legacy): tenant_id in self._config.ALLOWED_TENANTS
AuthService_is_allowed_tenant(tenant) == tenant \in Elements(config["ALLOWED_TENANTS"])

\* is_allowed_tenant(t) called: it returns a bool, or the lookup of
\* config.ALLOWED_TENANTS raises.
call_is_allowed_tenant(t) ==
    /\ pc = "idle"
    /\ op' = "is_allowed_tenant"
    /\ tenant_id' = t
    /\ calls' = << >>
    /\ response' = NoResponse
    /\ clear_idx' = 0
    /\ session0' = session
    /\ query_params0' = query_params
    /\ EndCall(IF Missing({"ALLOWED_TENANTS"}) # {}
               THEN "raise AttributeError"
               ELSE Bool(is_allowed_tenant(t)))
    /\ UNCHANGED << environ, args, returned, current_user, other, config, session, query_params, redeemed, exchangeLog,
                    auth_code, access_token, user_info, screen >>

\* AuthService.is_allowed_tenant(t) called.
call_AuthService_is_allowed_tenant(t) ==
    /\ pc = "idle"
    /\ op' = "AuthService.is_allowed_tenant"
    /\ tenant_id' = t
    /\ calls' = << >>
    /\ response' = NoResponse
    /\ clear_idx' = 0
    /\ session0' = session
    /\ query_params0' = query_params
    /\ EndCall(IF Missing({"ALLOWED_TENANTS"}) # {}
               THEN "raise AttributeError"
               ELSE Bool(AuthService_is_allowed_tenant(t)))
    /\ UNCHANGED << environ, args, returned, current_user, other, config, session, query_params, redeemed, exchangeLog,
                    auth_code, access_token, user_info, screen >>

\* What the caller of a function gets: the kind of the value, or the raise.
Returned(v) ==
    CASE v.type = "raise"    -> "raise " \o v.exc
      [] v.type = "NoneType" -> "None"
      [] v.type = "dict"     -> "dict"
      [] v.type = "str"      -> "str"

\* The tokens the decoding functions are called with.
AskedTokens == { Str(t) : t \in TokenStrings } \cup {None}

\* decode_token(token) called on its own; user_info keeps the returned claims
call_decode_token(token) ==
    /\ pc = "idle"
    /\ op' = "decode_token"
    /\ access_token' = token
    /\ user_info' = IF decode_token(token).type = "dict" THEN decode_token(token) ELSE None
    /\ tenant_id' = None
    /\ calls' = << >>
    /\ response' = NoResponse
    /\ clear_idx' = 0
    /\ session0' = session
    /\ query_params0' = query_params
    /\ EndCall(Returned(decode_token(token)))
    /\ UNCHANGED << environ, args, returned, current_user, other, config, session, query_params, redeemed, exchangeLog,
                    auth_code, screen >>

\* get_tenant_id_from_token(access_token) called on its own; tenant_id keeps
\* the returned tenant id
call_get_tenant_id_from_token(token) ==
    /\ pc = "idle"
    /\ op' = "get_tenant_id_from_token"
    /\ access_token' = token
    /\ user_info' = None
    /\ tenant_id' = IF get_tenant_id_from_token(token).type = "str"
                    THEN get_tenant_id_from_token(token)
                    ELSE None
    /\ calls' = << >>
    /\ response' = NoResponse
    /\ clear_idx' = 0
    /\ session0' = session
    /\ query_params0' = query_params
    /\ EndCall(Returned(get_tenant_id_from_token(token)))
    /\ UNCHANGED << environ, args, returned, current_user, other, config, session, query_params, redeemed, exchangeLog,
                    auth_code, screen >>

NextTenantPolicy ==
    \/ \E t \in AskedTenants : call_is_allowed_tenant(t)
    \/ \E t \in AskedTenants : call_AuthService_is_allowed_tenant(t)
    \/ \E token \in AskedTokens : call_decode_token(token)
    \/ \E token \in AskedTokens : call_get_tenant_id_from_token(token)

SpecTenantPolicy == InitTenantPolicy /\ [][NextTenantPolicy]_vars

(***************************************************************************)
(* C11.  is_allowed_tenant(t) is true exactly when some element of the     *)
(* configured allow-list is the string t itself: the same characters, the  *)
(* same case, no whitespace removed; and is_allowed_tenant(None) is false. *)
(***************************************************************************)
C11_AllowedIffExactMember ==
    ( /\ op \in {"is_allowed_tenant", "AuthService.is_allowed_tenant"}
      /\ Ended
      /\ "ALLOWED_TENANTS" \in DOMAIN config ) =>
        /\ result \in {"True", "False"}
        /\ result = "True" <=>
              /\ tenant_id.type = "str"
              /\ \E i \in 1..Len(config["ALLOWED_TENANTS"]) :
                    config["ALLOWED_TENANTS"][i].str = tenant_id.str
        /\ tenant_id = None => result = "False"

C11_Witness ==
    /\ op = "is_allowed_tenant"
    /\ Ended
    /\ tenant_id = Str("TENANT-1")
    /\ "ALLOWED_TENANTS" \in DOMAIN config
    /\ config["ALLOWED_TENANTS"] = << Str("tenant-2"), Str("tenant-1") >>
    /\ result = "False"

(***************************************************************************)
(* C12.  A handle_auth_code whose token exchange returned a token with a   *)
(* tid in ALLOWED_TENANTS and whose profile fetch returned a profile ends  *)
(* by returning True, and the session then holds is_authenticated = true,  *)
(* access_token = the exchanged token and user_info = the fetched profile. *)
(***************************************************************************)
\* the exchange of the running call returned a token of an allowed tenant
ExchangedAllowedToken ==
    /\ Called("acquire_token_by_authorization_code")
    /\ Truthy(access_token)
    /\ "ALLOWED_TENANTS" \in DOMAIN config
    /\ get_tenant_id_from_token(access_token) \in Elements(config["ALLOWED_TENANTS"])

\* the profile request of the running call was answered with a profile
FetchedProfile ==
    /\ response.kind = "response"
    /\ response.status_code = 200
    /\ response.body \in Profiles

C12_SuccessCommitsSession ==
    (InHandleAuthCode /\ Ended /\ ExchangedAllowedToken /\ FetchedProfile) =>
        /\ result = "True"
        /\ Authenticated(session)
        /\ {"access_token", "user_info"} \subseteq DOMAIN session
        /\ session["access_token"] = access_token
        /\ session["user_info"] = response.body

C12_Witness ==
    /\ InHandleAuthCode
    /\ Ended
    /\ auth_code = Str("abc")
    /\ access_token = Str("jwt-tenant-1")
    /\ "ALLOWED_TENANTS" \in DOMAIN config
    /\ config["ALLOWED_TENANTS"] = << Str("tenant-1") >>
    /\ FetchedProfile
    /\ "user_info" \in DOMAIN session
    /\ session["user_info"] = Dict([displayName |-> "Alice"])
    /\ "access_token" \in DOMAIN session0
    /\ session0["access_token"] = Str("jwt-tenant-2")

(***************************************************************************)
(* C13.  On an unauthenticated session with no code in the query           *)
(* parameters enforce_auth_or_display_sign_in returns False and shows the  *)
(* sign-in link, whose URL is built from the configured client id, scopes  *)
(* and redirect URI; it exchanges no token, fetches no profile and leaves  *)
(* the session as it was.                                                  *)
(***************************************************************************)
C13_NoCodeShowsSignIn ==
    (/\ InEnforce
     /\ Ended
     /\ ~Authenticated(session0)
     /\ "code" \notin DOMAIN query_params0) =>
        /\ result = "False"
        /\ Shown(Link("Sign In", get_auth_url))
        /\ ~Called("acquire_token_by_authorization_code")
        /\ ~Called("requests.get")
        /\ session = session0

(***************************************************************************)
(* Two script runs on one session.  Both are started by the same redirect  *)
(* of the identity provider, so both find the same code in the query       *)
(* parameters unless the other run has cleared them already.  One run's    *)
(* locals are in the variables of the flow, the other run's are set aside  *)
(* in `other`; Switch hands the processor to the other run, between any    *)
(* two statements.  The session store, the query parameters and the        *)
(* identity provider are shared.                                           *)
(***************************************************************************)
\* the locals of the running call
Frame ==
    [ pc |-> pc, op |-> op, auth_code |-> auth_code, access_token |-> access_token,
      tenant_id |-> tenant_id, response |-> response, user_info |-> user_info,
      clear_idx |-> clear_idx, result |-> result, calls |-> calls, screen |-> screen,
      session0 |-> session0, query_params0 |-> query_params0 ]

Switch ==
    /\ other' = Frame
    /\ pc' = other.pc
    /\ op' = other.op
    /\ auth_code' = other.auth_code
    /\ access_token' = other.access_token
    /\ tenant_id' = other.tenant_id
    /\ response' = other.response
    /\ user_info' = other.user_info
    /\ clear_idx' = other.clear_idx
    /\ result' = other.result
    /\ calls' = other.calls
    /\ screen' = other.screen
    /\ session0' = other.session0
    /\ query_params0' = other.query_params0
    /\ UNCHANGED << environ, args, returned, current_user, config, session, query_params, redeemed, exchangeLog >>

\* main, line 87: each of the two runs calls the flow once
main_87 ==
    /\ op = "none"
    /\ enforce_auth_or_display_sign_in

\* The identity provider has just redirected back with a code; neither run
\* has called the flow yet.
InitTwoRuns ==
    /\ environ = NoEnviron
    /\ args = << >>
    /\ returned = None
    /\ current_user = None
    /\ other = IdleFrame
    /\ config \in Configs
    /\ session = << >>
    /\ query_params \in { [code |-> c, state |-> "s"] : c \in Codes }
    /\ redeemed = {}
    /\ exchangeLog = << >>
    /\ pc = "idle"
    /\ op = "none"
    /\ auth_code = None
    /\ access_token = None
    /\ tenant_id = None
    /\ response = NoResponse
    /\ user_info = None
    /\ clear_idx = 0
    /\ result = "none"
    /\ calls = << >>
    /\ screen = << >>
    /\ session0 = << >>
    /\ query_params0 = << >>

NextTwoRuns ==
    \/ Switch
    \/ main_87
    \/ get_token_from_code
    \/ handle_auth_code_94
    \/ handle_auth_code_100
    \/ display_invalid_tenant_screen
    \/ display_sign_in_screen
    \/ get_user_info
    \/ handle_auth_code_108
    \/ initialize_session_52
    \/ initialize_session_55
    \/ initialize_session_56

SpecTwoRuns == InitTwoRuns /\ [][NextTwoRuns]_vars

\* both runs have called the flow and both calls have ended
BothEnded ==
    /\ Ended
    /\ other.pc = "idle"
    /\ other.result # "none"

\* the session holds a committed login: the flag with a token and a profile
Committed(s) ==
    /\ Authenticated(s)
    /\ {"access_token", "user_info"} \subseteq DOMAIN s
    /\ Truthy(s["access_token"])
    /\ Truthy(s["user_info"])

(***************************************************************************)
(* C14.  Two runs of the flow on one session with the same code, their     *)
(* steps interleaved in any way, the identity provider accepting the code  *)
(* at most once: from the moment the session holds a committed login, no   *)
(* step of either run changes the session store, so the login of the run   *)
(* that succeeded is still there when both have finished.                  *)
(***************************************************************************)
C14_CommittedSessionStays ==
    [][Committed(session) => (Committed(session') /\ session' = session)]_vars

C14_Witness ==
    /\ BothEnded
    /\ Len(exchangeLog) = 2
    /\ exchangeLog[1] = exchangeLog[2]
    /\ other.result = "True"
    /\ result = "False"
    /\ Shown(Error("Authentication failed."))
    /\ Committed(session)
    /\ session["access_token"] = other.access_token
    /\ session["user_info"] = other.user_info

(***************************************************************************)
(* C15.  After clear_session on an authenticated session the three session *)
(* fields are gone: is_authenticated() is False, user_info is absent and   *)
(* access_token is absent from the session store.                          *)
(***************************************************************************)
C15_LogoutClearsAllThree ==
    (op = "clear_session" /\ Ended /\ Authenticated(session0)) =>
        /\ ~Authenticated(session)
        /\ "user_info" \notin DOMAIN session
        /\ "access_token" \notin DOMAIN session

(***************************************************************************)
(* C16.  get_user_info returns the JSON body of the response exactly when  *)
(* the status is 200; for any other status, another 2xx included, it       *)
(* returns None, and handle_auth_code then ends as a profile-fetch         *)
(* failure.  (A 200 whose body is not JSON has no JSON body to return:     *)
(* response.json() raises, see C5.)                                        *)
(***************************************************************************)
C16_ProfileExactlyOn200 ==
    (InHandleAuthCode /\ Called("requests.get") /\ response.kind = "response") =>
        /\ (response.status_code = 200 /\ response.body # None) =>
               user_info = response.body
        /\ response.status_code # 200 =>
               /\ user_info = None
               /\ pc \in {"handle_auth_code_108", "idle"}
               /\ Ended =>
                     /\ result = "False"
                     /\ Shown(Error("Failed to retrieve user information."))
                     /\ ~Called("initialize_session")
                     /\ session = session0
        /\ user_info # None => response.status_code = 200

C16_Witness ==
    /\ InHandleAuthCode
    /\ Ended
    /\ response.kind = "response"
    /\ response.status_code = 201
    /\ response.body = Dict([displayName |-> "Alice"])
    /\ user_info = None
    /\ result = "False"

(***************************************************************************)
(* ConfigService.__init__ (app/core/config.py).  The constructor reads the *)
(* environment once and builds _config from it, one conversion after the   *)
(* other.  environ is os.environ after load_dotenv; every value in it is a *)
(* string.                                                                 *)
(***************************************************************************)
\* The longest raw value of a list setting, in characters.
MaxRawLen == 3

\* The characters a raw list value is written with.
RawChars == {"a", "b", ",", " "}

CharSeqs == UNION { [1..n -> RawChars] : n \in 0..MaxRawLen }

\* The characters the raw ALLOWED_TENANTS values are written with.
TenantChars == {"a", ",", " "}

TenantCharSeqs == UNION { [1..n -> TenantChars] : n \in 0..MaxRawLen }

\* the string made of the characters cs
RECURSIVE Join(_)
Join(cs) == IF cs = << >> THEN "" ELSE Head(cs) \o Join(Tail(cs))

\* the characters of the string s
Chars(s) == CHOOSE cs \in CharSeqs : Join(cs) = s

\* str.split(','): the pieces between the commas, empty pieces included
RECURSIVE split(_)
split(cs) ==
    IF \A i \in 1..Len(cs) : cs[i] # ","
    THEN << cs >>
    ELSE LET i == CHOOSE k \in 1..Len(cs) : cs[k] = "," /\ \A j \in 1..(k - 1) : cs[j] # ","
         IN  << SubSeq(cs, 1, i - 1) >> \o split(SubSeq(cs, i + 1, Len(cs)))

\* str.strip(): without the leading and trailing whitespace
RECURSIVE strip(_)
strip(cs) ==
    IF cs = << >> THEN cs
    ELSE IF Head(cs) = " " THEN strip(Tail(cs))
    ELSE IF cs[Len(cs)] = " " THEN strip(SubSeq(cs, 1, Len(cs) - 1))
    ELSE cs

\* [item for item in pieces if item.strip()]: the items kept as they are
RECURSIVE unstripped_items(_)
unstripped_items(pieces) ==
    IF pieces = << >> THEN << >>
    ELSE (IF strip(Head(pieces)) # << >> THEN << Str(Join(Head(pieces))) >> ELSE << >>)
         \o unstripped_items(Tail(pieces))

\* [item.strip() for item in pieces if item.strip()]
RECURSIVE stripped_items(_)
stripped_items(pieces) ==
    IF pieces = << >> THEN << >>
    ELSE (IF strip(Head(pieces)) # << >> THEN << Str(Join(strip(Head(pieces)))) >> ELSE << >>)
         \o stripped_items(Tail(pieces))

\* str.lower() on the values DEBUG is given
lower(s) == IF s = "True" THEN "true" ELSE IF s = "T" THEN "t" ELSE s

\* json.loads on the values API_SETTINGS is given: the parsed object; a
\* string that is not in the table is not JSON and json.loads raises.
JsonTable == ("{\"timeout\": \"30\"}" :> Dict([timeout |-> "30"]))

boolean_keys == {"DEBUG"}

list_keys == {"ALLOWED_ORIGINS", "ALLOWED_TENANTS", "MSAL_SCOPES"}

dict_keys == {"API_SETTINGS"}

\* The environments a deployment may start the application in: for each
\* variable the values it may have, NoValue for a variable that is not set.
NoValue == [type |-> "unset"]

EnvChoices ==
    [ WEBSITE_INSTANCE_ID     : {NoValue, Str("instance-1")},
      MSAL_REDIRECT_AZURE_URI : {NoValue, Str("https://app.azurewebsites.net")},
      MSAL_REDIRECT_LOCAL_URI : {NoValue, Str("http://localhost:8501")},
      MSAL_REDIRECT_URI       : {NoValue, Str("http://stale.example")},
      DEBUG                   : {NoValue, Str("True"), Str("0")},
      API_SETTINGS            : {NoValue, Str("{\"timeout\": \"30\"}"), Str("{timeout")},
      ALLOWED_TENANTS         : {NoValue} \cup { Str(Join(cs)) : cs \in TenantCharSeqs },
      ALLOWED_ORIGINS         : {NoValue, Str(" a,")},
      MSAL_SCOPES             : {NoValue, Str("b,a")} ]

\* the variables that are set, with their values
Environment(choice) ==
    [ k \in { x \in DOMAIN choice : choice[x] # NoValue } |-> choice[k] ]

Envs == { Environment(choice) : choice \in EnvChoices }

\* dict.get(key): the value, None for a key that is not there
dict_get(d, key) == IF key \in DOMAIN d THEN d[key] ELSE None

InitConfig ==
    /\ environ \in Envs
    /\ config = << >>
    /\ NothingCalled

\* lines 47-53: load_dotenv, the copy of os.environ, the three key lists
ConfigService_init ==
    /\ StartCall("ConfigService.__init__")
    /\ op = "none"
    /\ config' = environ
    /\ pc' = "ConfigService_convert_booleans"
    /\ UNCHANGED << environ, args, returned, current_user, other, session, query_params, redeemed, exchangeLog, auth_code,
                    access_token, user_info, result, screen >>

\* lines 63-69
ConfigService_convert_booleans ==
    /\ pc = "ConfigService_convert_booleans"
    /\ config' = [ k \in DOMAIN config |->
                     IF k \in boolean_keys
                     THEN [type |-> "bool", bool |-> lower(config[k].str) \in {"true", "1", "t"}]
                     ELSE config[k] ]
    /\ pc' = "ConfigService_convert_lists"
    /\ UNCHANGED << environ, args, returned, current_user, other, session, query_params, redeemed, exchangeLog, op, auth_code,
                    access_token, tenant_id, response, user_info, clear_idx, result, calls,
                    screen, session0, query_params0 >>

\* lines 71-77
ConfigService_convert_lists ==
    /\ pc = "ConfigService_convert_lists"
    /\ config' = [ k \in DOMAIN config |->
                     IF k \in list_keys
                     THEN stripped_items(split(Chars(config[k].str)))
                     ELSE config[k] ]
    /\ pc' = "ConfigService_convert_dicts"
    /\ UNCHANGED << environ, args, returned, current_user, other, session, query_params, redeemed, exchangeLog, op, auth_code,
                    access_token, tenant_id, response, user_info, clear_idx, result, calls,
                    screen, session0, query_params0 >>

\* lines 79-88: json.loads; a value that is not JSON raises ValueError and
\* the construction fails.
ConfigService_convert_dicts ==
    /\ pc = "ConfigService_convert_dicts"
    /\ IF \E k \in dict_keys \cap DOMAIN config : config[k].str \notin DOMAIN JsonTable
       THEN /\ EndCall("raise ValueError")
            /\ UNCHANGED config
       ELSE /\ config' = [ k \in DOMAIN config |->
                             IF k \in dict_keys THEN JsonTable[config[k].str] ELSE config[k] ]
            /\ pc' = "ConfigService_set_msal_redirect_uri"
            /\ UNCHANGED result
    /\ UNCHANGED << environ, args, returned, current_user, other, session, query_params, redeemed, exchangeLog, op, auth_code,
                    access_token, tenant_id, response, user_info, clear_idx, calls,
                    screen, session0, query_params0 >>

\* lines 99-107
ConfigService_is_running_in_azure == "WEBSITE_INSTANCE_ID" \in DOMAIN config

\* _set_msal_redirect_uri leaving alone a MSAL_REDIRECT_URI that is already set
ConfigService_set_msal_redirect_uri_default ==
    /\ pc = "ConfigService_set_msal_redirect_uri"
    /\ config' = IF "MSAL_REDIRECT_URI" \in DOMAIN config
                 THEN config
                 ELSE IF ConfigService_is_running_in_azure
                 THEN SetItem(config, "MSAL_REDIRECT_URI", dict_get(config, "MSAL_REDIRECT_AZURE_URI"))
                 ELSE SetItem(config, "MSAL_REDIRECT_URI", dict_get(config, "MSAL_REDIRECT_LOCAL_URI"))
    /\ EndCall("None")
    /\ UNCHANGED << environ, args, returned, current_user, other, session, query_params, redeemed, exchangeLog, op, auth_code,
                    access_token, tenant_id, response, user_info, clear_idx, calls,
                    screen, session0, query_params0 >>

\* lines 90-97, then __init__ returns
ConfigService_set_msal_redirect_uri ==
    /\ pc = "ConfigService_set_msal_redirect_uri"
    /\ config' = IF ConfigService_is_running_in_azure
                 THEN SetItem(config, "MSAL_REDIRECT_URI", dict_get(config, "MSAL_REDIRECT_AZURE_URI"))
                 ELSE SetItem(config, "MSAL_REDIRECT_URI", dict_get(config, "MSAL_REDIRECT_LOCAL_URI"))
    /\ EndCall("None")
    /\ UNCHANGED << environ, args, returned, current_user, other, session, query_params, redeemed, exchangeLog, op, auth_code,
                    access_token, tenant_id, response, user_info, clear_idx, calls,
                    screen, session0, query_params0 >>

\* the constructor has returned
Constructed == op = "ConfigService.__init__" /\ Ended /\ result = "None"

\* The settings the application looks up: one the environment may or may not
\* define, one no environment defines.
LookupNames == {"ALLOWED_TENANTS", "APP_NAME"}

\* The defaults get() is called with: NoValue for a call without the argument.
LookupDefaults == {NoValue, Str("fallback")}

LookupOps == {"ConfigService.__getattr__", "ConfigService.get"}

\* a ConfigService exists: its constructor returned, and lookups came after
Loaded == pc = "idle" /\ (Constructed \/ op \in LookupOps)

\* __getattr__(name), lines 122-125: self._config[name]; KeyError becomes
\* AttributeError
ConfigService_getattr(name) ==
    /\ Loaded
    /\ StartCall("ConfigService.__getattr__")
    /\ args' = [name |-> name]
    /\ IF name \in DOMAIN config
       THEN /\ returned' = config[name]
            /\ EndCall("value")
       ELSE /\ returned' = None
            /\ EndCall("raise AttributeError")
    /\ UNCHANGED << environ, current_user, other, config, session, query_params, redeemed,
                    exchangeLog, auth_code, access_token, user_info, screen >>

\* get(key, default) written with dict.setdefault, which stores the default
ConfigService_get_setdefault(key, default) ==
    /\ Loaded
    /\ StartCall("ConfigService.get")
    /\ args' = [key |-> key, default |-> default]
    /\ LET d == IF default = NoValue THEN None ELSE default
       IN  /\ returned' = IF key \in DOMAIN config THEN config[key] ELSE d
           /\ config' = IF key \in DOMAIN config THEN config ELSE SetItem(config, key, d)
    /\ EndCall("value")
    /\ UNCHANGED << environ, current_user, other, session, query_params, redeemed,
                    exchangeLog, auth_code, access_token, user_info, screen >>

\* get(key, default=None), line 138: self._config.get(key, default)
ConfigService_get(key, default) ==
    /\ Loaded
    /\ StartCall("ConfigService.get")
    /\ args' = [key |-> key, default |-> default]
    /\ LET d == IF default = NoValue THEN None ELSE default
       IN  returned' = IF key \in DOMAIN config THEN config[key] ELSE d
    /\ EndCall("value")
    /\ UNCHANGED << environ, current_user, other, config, session, query_params, redeemed,
                    exchangeLog, auth_code, access_token, user_info, screen >>

NextConfig ==
    \/ ConfigService_init
    \/ ConfigService_convert_booleans
    \/ ConfigService_convert_lists
    \/ ConfigService_convert_dicts
    \/ ConfigService_set_msal_redirect_uri
    \/ \E name \in LookupNames : ConfigService_getattr(name)
    \/ \E key \in LookupNames, default \in LookupDefaults : ConfigService_get(key, default)

SpecConfig == InitConfig /\ [][NextConfig]_vars

(***************************************************************************)
(* C17.  After the construction MSAL_REDIRECT_URI is the value of          *)
(* MSAL_REDIRECT_AZURE_URI when the environment holds WEBSITE_INSTANCE_ID, *)
(* and the value of MSAL_REDIRECT_LOCAL_URI otherwise; a MSAL_REDIRECT_URI *)
(* of the environment is overwritten; when the selected variable is not    *)
(* set the setting is there with the value None.                           *)
(***************************************************************************)
C17_RedirectUriByEnvironment ==
    Constructed =>
        /\ "MSAL_REDIRECT_URI" \in DOMAIN config
        /\ config["MSAL_REDIRECT_URI"] =
              IF "WEBSITE_INSTANCE_ID" \in DOMAIN environ
              THEN (IF "MSAL_REDIRECT_AZURE_URI" \in DOMAIN environ
                    THEN environ["MSAL_REDIRECT_AZURE_URI"] ELSE None)
              ELSE (IF "MSAL_REDIRECT_LOCAL_URI" \in DOMAIN environ
                    THEN environ["MSAL_REDIRECT_LOCAL_URI"] ELSE None)

C17_Witness ==
    /\ Constructed
    /\ "WEBSITE_INSTANCE_ID" \in DOMAIN environ
    /\ "MSAL_REDIRECT_AZURE_URI" \notin DOMAIN environ
    /\ "MSAL_REDIRECT_LOCAL_URI" \in DOMAIN environ
    /\ "MSAL_REDIRECT_URI" \in DOMAIN environ
    /\ "MSAL_REDIRECT_URI" \in DOMAIN config
    /\ config["MSAL_REDIRECT_URI"] = None

(***************************************************************************)
(* C18.  Decoding a token never raises.  decode_token returns the claims   *)
(* of a well-formed token and None for any other; get_tenant_id_from_token *)
(* returns the tid claim when there is one and None when the token cannot  *)
(* be decoded or has no tid.  Neither treats the absence as an error: the  *)
(* caller gets None and decides.                                           *)
(***************************************************************************)
\* PyJWT can decode the token: it is a JWT and its header names an algorithm
WellFormed(token) ==
    /\ token.type = "str"
    /\ token.str \in DOMAIN JwtTable
    /\ "alg" \in DOMAIN JwtTable[token.str].header

C18_DecodingNeverRaises ==
    /\ (op = "decode_token" /\ Ended) =>
          /\ result \in {"dict", "None"}
          /\ result = "dict" <=> WellFormed(access_token)
          /\ result = "dict" => user_info = Dict(JwtTable[access_token.str].payload)
    /\ (op = "get_tenant_id_from_token" /\ Ended) =>
          /\ result \in {"str", "None"}
          /\ result = "str" <=>
                /\ WellFormed(access_token)
                /\ "tid" \in DOMAIN JwtTable[access_token.str].payload
          /\ result = "str" => tenant_id = Str(JwtTable[access_token.str].payload.tid)

C18_Witness ==
    /\ op = "get_tenant_id_from_token"
    /\ Ended
    /\ access_token = Str("jwt-no-alg")
    /\ result = "None"

(***************************************************************************)
(* C19.  The configuration is fixed once it is loaded: no step of          *)
(* enforce_auth_or_display_sign_in, handle_auth_code, is_allowed_tenant,   *)
(* initialize_session or clear_session changes ALLOWED_TENANTS or any      *)
(* other setting, so a tenant id that is allowed stays allowed and one     *)
(* that is not stays not.                                                  *)
(***************************************************************************)
\* the tenant ids the configuration lets in
AllowedTenants(c) ==
    IF "ALLOWED_TENANTS" \in DOMAIN c THEN Elements(c["ALLOWED_TENANTS"]) ELSE {}

C19_ConfigurationIsFixed ==
    [][/\ config' = config
       /\ AllowedTenants(config') = AllowedTenants(config)]_vars

C19_Witness ==
    /\ op = "clear_session"
    /\ Ended
    /\ Len(exchangeLog) = 2
    /\ redeemed # {}
    /\ "access_token" \in DOMAIN session
    /\ session["access_token"] = Str("jwt-tenant-2")
    /\ AllowedTenants(config) = { Str("tenant-1"), Str("tenant-2") }

(***************************************************************************)
(* The legacy session manager (old_files/session_manager.py).  Its         *)
(* initialize_session also logs the login and loads the user's startup     *)
(* presentation through the service container; those services answer or    *)
(* raise.  The session store is st.session_state as before.                *)
(***************************************************************************)
\* the variables the legacy session manager has nothing to do with
LegacyUntouched ==
    UNCHANGED << environ, args, returned, current_user, other, config, query_params, redeemed, exchangeLog, auth_code,
                 tenant_id, response, screen >>

\* _get_session_log_info, lines 154-170: user id, a fresh session id, the time
get_session_log_info(info) ==
    Dict([ user_id       |-> IF "userPrincipalName" \in DOMAIN info.items
                             THEN info.items["userPrincipalName"]
                             ELSE None,
           session_id    |-> "uuid4",
           session_start |-> "now" ])

InitLegacy ==
    /\ environ = NoEnviron
    /\ config = FullConfig(<< Str("tenant-1") >>)
    /\ NothingCalled

\* SessionManager.initialize_session(services, token, info) is called
Legacy_initialize_session(token, info) ==
    /\ StartCall("old_files.SessionManager.initialize_session")
    /\ access_token' = token
    /\ user_info' = info
    /\ result' = "none"
    /\ pc' = "legacy_initialize_session_65"
    /\ UNCHANGED session
    /\ UNCHANGED << environ, args, returned, current_user, other, config, query_params, redeemed, exchangeLog, auth_code,
                    screen >>

\* line 65: st.session_state.access_token = access_token
Legacy_initialize_session_65 ==
    /\ pc = "legacy_initialize_session_65"
    /\ session' = SetItem(session, "access_token", access_token)
    /\ pc' = "legacy_initialize_session_66"
    /\ UNCHANGED << op, access_token, user_info, clear_idx, result, calls, session0,
                    query_params0 >>
    /\ LegacyUntouched

\* line 66: st.session_state.user_info = user_info
Legacy_initialize_session_66 ==
    /\ pc = "legacy_initialize_session_66"
    /\ session' = SetItem(session, "user_info", user_info)
    /\ pc' = "legacy_initialize_session_67"
    /\ UNCHANGED << op, access_token, user_info, clear_idx, result, calls, session0,
                    query_params0 >>
    /\ LegacyUntouched

\* lines 67-68: is_authenticated = True, session_log_info
Legacy_initialize_session_67 ==
    /\ pc = "legacy_initialize_session_67"
    /\ session' = SetItem(SetItem(session, "is_authenticated", TRUE),
                          "session_log_info", get_session_log_info(user_info))
    /\ pc' = "legacy_initialize_session_71"
    /\ UNCHANGED << op, access_token, user_info, clear_idx, result, calls, session0,
                    query_params0 >>
    /\ LegacyUntouched

\* lines 71-75: services.app_log_service.log_event raises, or returns and
\* show_configuration_manager is set to False
Legacy_initialize_session_71 ==
    /\ pc = "legacy_initialize_session_71"
    /\ calls' = Append(calls, "app_log_service.log_event")
    /\ \/ /\ EndCall("raise Exception")
          /\ UNCHANGED session
       \/ /\ session' = SetItem(session, "show_configuration_manager", FALSE)
          /\ pc' = "load_startup_presentation_89"
          /\ UNCHANGED result
    /\ UNCHANGED << op, access_token, user_info, clear_idx, session0, query_params0 >>
    /\ LegacyUntouched

\* load_startup_presentation, lines 85-92: the user's default presentation
Legacy_load_startup_presentation_89 ==
    /\ pc = "load_startup_presentation_89"
    /\ calls' = Append(calls, "storage_service.get_user_default_presentation")
    /\ \/ /\ EndCall("raise Exception")
          /\ UNCHANGED session
       \/ /\ session' = SetItem(session, "presentation_folder", Str("folder-1"))
          /\ pc' = "load_startup_presentation_95"
          /\ UNCHANGED result
    /\ UNCHANGED << op, access_token, user_info, clear_idx, session0, query_params0 >>
    /\ LegacyUntouched

\* load_startup_presentation, lines 95-98: the presentation's name and menu;
\* then both methods return
Legacy_load_startup_presentation_95 ==
    /\ pc = "load_startup_presentation_95"
    /\ calls' = Append(calls, "storage_service.get_presentation_menu")
    /\ \/ /\ EndCall("raise Exception")
          /\ UNCHANGED session
       \/ /\ session' = SetItem(SetItem(SetItem(session,
                              "presentation_name", Str("Presentation 1")),
                              "menu_items", << Str("Home") >>),
                              "presentation_meta", Str(""))
          /\ EndCall("None")
    /\ UNCHANGED << op, access_token, user_info, clear_idx, session0, query_params0 >>
    /\ LegacyUntouched

\* clear_session, lines 113-116
legacy_keys_to_clear ==
    << "access_token", "user_info", "session_log_info", "current_presentation",
       "current_module", "presentations", "modules" >>

\* SessionManager.clear_session() is called (logout)
Legacy_clear_session ==
    /\ StartCall("old_files.SessionManager.clear_session")
    /\ access_token' = None
    /\ user_info' = None
    /\ result' = "none"
    /\ pc' = "legacy_clear_session_120"
    /\ UNCHANGED session
    /\ UNCHANGED << environ, args, returned, current_user, other, config, query_params, redeemed, exchangeLog, auth_code,
                    screen >>

\* clear_session, lines 120-122: one turn of the loop; after the last key the
\* method returns None
Legacy_clear_session_120 ==
    /\ pc = "legacy_clear_session_120"
    /\ IF clear_idx < Len(legacy_keys_to_clear)
       THEN /\ clear_idx' = clear_idx + 1
            /\ session' = IF legacy_keys_to_clear[clear_idx + 1] \in DOMAIN session
                          THEN DelItem(session, legacy_keys_to_clear[clear_idx + 1])
                          ELSE session
            /\ UNCHANGED << pc, result >>
       ELSE /\ EndCall("None")
            /\ UNCHANGED << clear_idx, session >>
    /\ UNCHANGED << op, access_token, user_info, calls, session0, query_params0 >>
    /\ LegacyUntouched

\* SessionManager.is_authenticated(), line 132
Legacy_is_authenticated ==
    /\ StartCall("old_files.SessionManager.is_authenticated")
    /\ access_token' = None
    /\ user_info' = None
    /\ EndCall(Bool(SessionManager_is_authenticated(session)))
    /\ UNCHANGED session
    /\ UNCHANGED << environ, args, returned, current_user, other, config, query_params, redeemed, exchangeLog, auth_code,
                    screen >>

\* SessionManager.get_user_info(), line 142; user_info keeps the returned value
Legacy_get_user_info ==
    /\ StartCall("old_files.SessionManager.get_user_info")
    /\ access_token' = None
    /\ user_info' = IF "user_info" \in DOMAIN session THEN session["user_info"] ELSE EmptyDict
    /\ EndCall(Returned(user_info'))
    /\ UNCHANGED session
    /\ UNCHANGED << environ, args, returned, current_user, other, config, query_params, redeemed, exchangeLog, auth_code,
                    screen >>

NextLegacy ==
    \/ \E token \in SessionTokens, info \in Profiles : Legacy_initialize_session(token, info)
    \/ Legacy_initialize_session_65
    \/ Legacy_initialize_session_66
    \/ Legacy_initialize_session_67
    \/ Legacy_initialize_session_71
    \/ Legacy_load_startup_presentation_89
    \/ Legacy_load_startup_presentation_95
    \/ Legacy_clear_session
    \/ Legacy_clear_session_120
    \/ Legacy_is_authenticated
    \/ Legacy_get_user_info

SpecLegacy == InitLegacy /\ [][NextLegacy]_vars

(***************************************************************************)
(* C20.  Legacy session manager: after clear_session on an authenticated   *)
(* session is_authenticated() returns False; and whenever                  *)
(* is_authenticated() returns True the session holds both the access token *)
(* and the user info.                                                      *)
(***************************************************************************)
C20_LegacyLogoutUnauthenticates ==
    /\ (/\ op = "old_files.SessionManager.clear_session"
        /\ Ended
        /\ Authenticated(session0)) => ~Authenticated(session)
    /\ (/\ op = "old_files.SessionManager.is_authenticated"
        /\ Ended
        /\ result = "True") => {"access_token", "user_info"} \subseteq DOMAIN session

(***************************************************************************)
(* C21.  Once the session is authenticated every later call of             *)
(* enforce_auth_or_display_sign_in returns True, and the session stays     *)
(* authenticated, until clear_session is called.  After clear_session the  *)
(* next call without a code returns False and shows the sign-in screen.    *)
(* Within the flow the session becomes authenticated only at the end of a  *)
(* handle_auth_code whose steps all succeeded.                             *)
(***************************************************************************)
\* the session has been logged out: initialize_session had stored a token,
\* clear_session has removed the flag since
LoggedOut(s) == ~Authenticated(s) /\ "access_token" \in DOMAIN s

C21_TrueUntilLogout ==
    (InEnforce /\ Authenticated(session0)) => (Ended /\ result = "True")

C21_StaysUntilLogout ==
    [][(Authenticated(session) /\ ~Authenticated(session')) => op' = "clear_session"]_vars

C21_SignInAfterLogout ==
    (/\ InEnforce
     /\ Ended
     /\ LoggedOut(session0)
     /\ "code" \notin DOMAIN query_params0) =>
        /\ result = "False"
        /\ IsPrefix(SignInElements, screen)
        /\ Shown(Link("Sign In", get_auth_url))

C21_AgainOnlyThroughTheFlow ==
    [][(InEnforce /\ ~Authenticated(session) /\ Authenticated(session')) =>
          /\ InHandleAuthCode
          /\ calls = CallOrder
          /\ result' = "True"]_vars

C21_AuthenticatedUntilLogout ==
    /\ []C21_TrueUntilLogout
    /\ C21_StaysUntilLogout
    /\ []C21_SignInAfterLogout
    /\ C21_AgainOnlyThroughTheFlow

(***************************************************************************)
(* C22.  Whenever enforce_auth_or_display_sign_in returns, the boolean it  *)
(* returns is what SessionManager.is_authenticated() gives at that moment: *)
(* True exactly when the session is authenticated, False exactly when it   *)
(* is not, whatever the session was at the start and however the steps of  *)
(* handle_auth_code went.                                                  *)
(***************************************************************************)
C22_ResultIsSessionFlag ==
    (InEnforce /\ Ended /\ result \in Returns) =>
        /\ result \in {"True", "False"}
        /\ result = "True" <=> SessionManager_is_authenticated(session)

C22_Witness ==
    /\ InHandleAuthCode
    /\ Ended
    /\ LoggedOut(session0)
    /\ result = "False"
    /\ Called("requests.get")
    /\ ~SessionManager_is_authenticated(session)

(***************************************************************************)
(* C23.  On an authenticated session with a code in the query parameters   *)
(* enforce_auth_or_display_sign_in leaves the query parameters as they     *)
(* are: handle_auth_code is not entered, the code is not exchanged and not *)
(* cleared, and the next run finds it again.                               *)
(***************************************************************************)
C23_CodeLeftInPlace ==
    (InEnforce /\ Authenticated(session0) /\ "code" \in DOMAIN query_params0) =>
        /\ auth_code = None
        /\ ~Called("acquire_token_by_authorization_code")
        /\ "code" \in DOMAIN query_params
        /\ query_params["code"] = query_params0["code"]
        /\ query_params = query_params0

C23_Witness ==
    /\ InEnforce
    /\ Ended
    /\ result = "True"
    /\ Authenticated(session0)
    /\ "code" \in DOMAIN query_params
    /\ query_params["code"] = "xyz"
    /\ redeemed = {"abc"}

(***************************************************************************)
(* C24.  handle_auth_code goes on with a token only when it is a non-empty *)
(* string, and goes on with a profile exactly when the profile fetch       *)
(* returned a non-empty record, whatever its fields.  An empty-string      *)
(* token, or an empty profile returned with status 200, is a failure: the  *)
(* error message, False, and a session that is left unauthenticated.       *)
(***************************************************************************)
\* a record with at least one field
NonEmptyRecord(v) == v.type = "dict" /\ DOMAIN v.items # {}

C24_PresenceIsAllThatIsTested ==
    /\ (InHandleAuthCode /\ Called("decode_token")) =>
          (access_token.type = "str" /\ access_token.str # "")
    /\ (/\ InHandleAuthCode
        /\ Called("requests.get")
        /\ pc # "handle_auth_code_108"
        /\ result \notin Raises) =>
          (Called("initialize_session") <=> NonEmptyRecord(user_info))
    /\ (InHandleAuthCode /\ Ended /\ access_token = Str("")) =>
          /\ result = "False"
          /\ Shown(Error("Authentication failed."))
          /\ ~Called("decode_token")
          /\ ~Authenticated(session)
    /\ (/\ InHandleAuthCode
        /\ Ended
        /\ response.kind = "response"
        /\ response.status_code = 200
        /\ response.body = EmptyDict) =>
          /\ result = "False"
          /\ Shown(Error("Failed to retrieve user information."))
          /\ ~Authenticated(session)

C24_Witness ==
    /\ InHandleAuthCode
    /\ Ended
    /\ response.kind = "response"
    /\ response.status_code = 200
    /\ response.body = EmptyDict
    /\ user_info = EmptyDict
    /\ result = "False"

(***************************************************************************)
(* The session manager on its own (app/core/session_manager.py): the       *)
(* application logs a user in, logs the user out and asks who the user is. *)
(***************************************************************************)
\* SessionManager.get_user_info(), line 95; user_info keeps the returned value
SessionManager_get_user_info ==
    /\ StartCall("SessionManager.get_user_info")
    /\ access_token' = None
    /\ auth_code' = None
    /\ user_info' = IF "user_info" \in DOMAIN session THEN session["user_info"] ELSE EmptyDict
    /\ EndCall(Returned(user_info'))
    /\ UNCHANGED << environ, args, returned, current_user, other, config, session, query_params, redeemed, exchangeLog,
                    screen >>

InitSession ==
    /\ environ = NoEnviron
    /\ config = FullConfig(<< Str("tenant-1") >>)
    /\ NothingCalled

NextSession ==
    \/ \E token \in SessionTokens, info \in Profiles :
          SessionManager_initialize_session(token, info)
    \/ initialize_session_52
    \/ initialize_session_55
    \/ initialize_session_56
    \/ SessionManager_clear_session
    \/ clear_session_73
    \/ SessionManager_get_user_info

SpecSession == InitSession /\ [][NextSession]_vars

(***************************************************************************)
(* C25.  SessionManager.get_user_info (current and legacy) returns the     *)
(* stored user information when the session has it, and None when it has   *)
(* not: on a fresh session and after clear_session.                        *)
(***************************************************************************)
C25_UserInfoOrNone ==
    (/\ op \in {"SessionManager.get_user_info", "old_files.SessionManager.get_user_info"}
     /\ Ended) =>
        IF "user_info" \in DOMAIN session
        THEN /\ result \notin Raises
             /\ user_info = session["user_info"]
        ELSE result = "None"

(***************************************************************************)
(* The legacy AuthService (old_files/auth_service.py).  The service keeps  *)
(* the logged-in user in _current_user; authenticate_user runs the same    *)
(* steps as handle_auth_code against the same collaborators.               *)
(***************************************************************************)
\* AuthService.__init__ builds the MSAL client from the configuration (lines
\* 61-65): a service exists only for a configuration that has those settings.
InitAuthService ==
    /\ environ = NoEnviron
    /\ config \in { c \in Configs : ClientKeys \subseteq DOMAIN c }
    /\ NothingCalled

\* authenticate_user(auth_code), line 98: get_token_from_code, lines 121-130,
\* where anything that goes wrong is caught and None returned
AuthService_authenticate_user(code) ==
    /\ StartCall("AuthService.authenticate_user")
    /\ Len(exchangeLog) < MaxExchanges
    /\ auth_code' = Str(code)
    /\ user_info' = None
    /\ result' = "none"
    /\ IF Missing({"MSAL_SCOPES", "MSAL_REDIRECT_URI"}) # {}
       THEN /\ access_token' = None
            /\ UNCHANGED << redeemed, exchangeLog >>
       ELSE /\ \E answer \in TokenAnswers(code) :
                  /\ access_token' = IF answer.kind = "token"
                                     THEN Str(answer.access_token)
                                     ELSE None
                  /\ redeemed' = IF answer.kind = "token"
                                 THEN redeemed \cup {code}
                                 ELSE redeemed
            /\ exchangeLog' = Append(exchangeLog, code)
    /\ pc' = "authenticate_user_99"
    /\ UNCHANGED << environ, args, returned, current_user, other, config, session, query_params, screen >>

\* lines 99-101 and 106-108: no token: False; the tenant id of the token; a
\* tenant that is not allowed: False
AuthService_authenticate_user_99 ==
    /\ pc = "authenticate_user_99"
    /\ IF ~Truthy(access_token)
       THEN /\ EndCall("False")
            /\ UNCHANGED << tenant_id, calls >>
       ELSE /\ tenant_id' = get_tenant_id_from_token(access_token)
            /\ IF Missing({"ALLOWED_TENANTS"}) # {}
               THEN /\ calls' = Append(calls, "decode_token")
                    /\ EndCall("raise AttributeError")
               ELSE /\ calls' = calls \o << "decode_token", "is_allowed_tenant" >>
                    /\ IF AuthService_is_allowed_tenant(tenant_id')
                       THEN pc' = "authenticate_user_102" /\ UNCHANGED result
                       ELSE EndCall("False")
    /\ UNCHANGED << environ, args, returned, current_user, other, config, session, query_params, redeemed,
                    exchangeLog, op, auth_code, access_token, response, user_info, clear_idx,
                    screen, session0, query_params0 >>

\* the profile with the tenant id added to it (line 105)
with_tenant_id(info, tenant) == Dict(SetItem(info.items, "tenant_id", tenant.str))

\* authenticate_user lines 102-105 forgetting the user when the profile fetch
\* gives nothing
AuthService_authenticate_user_102_forgets ==
    /\ pc = "authenticate_user_102"
    /\ calls' = Append(calls, "requests.get")
    /\ \E r \in Responses \cup {TransportError} :
          /\ response' = r
          /\ IF r = TransportError
             THEN /\ EndCall("raise RequestException")
                  /\ UNCHANGED << user_info, current_user >>
             ELSE IF r.status_code = 200 /\ r.body = None
             THEN /\ EndCall("raise JSONDecodeError")
                  /\ UNCHANGED << user_info, current_user >>
             ELSE /\ user_info' = IF r.status_code = 200 THEN r.body ELSE None
                  /\ IF Truthy(user_info')
                     THEN /\ current_user' = with_tenant_id(user_info', tenant_id)
                          /\ EndCall("True")
                     ELSE /\ current_user' = None
                          /\ EndCall("False")
    /\ UNCHANGED << environ, args, returned, other, config, session, query_params, redeemed, exchangeLog, op,
                    auth_code, access_token, tenant_id, clear_idx, screen, session0,
                    query_params0 >>

\* lines 102-105 and 109: get_user_info (lines 194-200: requests.get may raise,
\* response.json() may raise); user info: it becomes the current user, with
\* the tenant id added, True; none: False
AuthService_authenticate_user_102 ==
    /\ pc = "authenticate_user_102"
    /\ calls' = Append(calls, "requests.get")
    /\ \E r \in Responses \cup {TransportError} :
          /\ response' = r
          /\ IF r = TransportError
             THEN /\ EndCall("raise RequestException")
                  /\ UNCHANGED << user_info, current_user >>
             ELSE IF r.status_code = 200 /\ r.body = None
             THEN /\ EndCall("raise JSONDecodeError")
                  /\ UNCHANGED << user_info, current_user >>
             ELSE /\ user_info' = IF r.status_code = 200 THEN r.body ELSE None
                  /\ IF Truthy(user_info')
                     THEN /\ current_user' = with_tenant_id(user_info', tenant_id)
                          /\ EndCall("True")
                     ELSE /\ EndCall("False")
                          /\ UNCHANGED current_user
    /\ UNCHANGED << environ, args, returned, other, config, session, query_params, redeemed, exchangeLog, op,
                    auth_code, access_token, tenant_id, clear_idx, screen, session0,
                    query_params0 >>

\* AuthService.is_authenticated(), line 209
AuthService_is_authenticated ==
    /\ StartCall("AuthService.is_authenticated")
    /\ auth_code' = None
    /\ access_token' = None
    /\ user_info' = None
    /\ EndCall(Bool(current_user # None))
    /\ UNCHANGED << environ, args, returned, current_user, other, config, session, query_params, redeemed,
                    exchangeLog, screen >>

\* AuthService.logout(), line 224
AuthService_logout ==
    /\ StartCall("AuthService.logout")
    /\ auth_code' = None
    /\ access_token' = None
    /\ user_info' = None
    /\ current_user' = None
    /\ EndCall("None")
    /\ UNCHANGED << environ, args, returned, other, config, session, query_params, redeemed, exchangeLog,
                    screen >>

NextAuthService ==
    \/ \E code \in Codes : AuthService_authenticate_user(code)
    \/ AuthService_authenticate_user_99
    \/ AuthService_authenticate_user_102
    \/ AuthService_is_authenticated
    \/ AuthService_logout

SpecAuthService == InitAuthService /\ [][NextAuthService]_vars

(***************************************************************************)
(* C26.  Legacy AuthService: authenticate_user returns True exactly when   *)
(* the exchange gave a token, the token's tenant id is allowed and the     *)
(* profile fetch gave user info, and then the current user is that profile *)
(* with the tenant id added.  A call that does not return True leaves the  *)
(* current user as it was; is_authenticated() is true exactly while a      *)
(* current user is set; after logout() there is none.                      *)
(***************************************************************************)
\* the three steps of the authenticate_user that has ended all succeeded
AuthServiceStepsSucceeded ==
    /\ Truthy(access_token)
    /\ "ALLOWED_TENANTS" \in DOMAIN config
    /\ get_tenant_id_from_token(access_token) \in Elements(config["ALLOWED_TENANTS"])
    /\ response.kind = "response"
    /\ response.status_code = 200
    /\ NonEmptyRecord(response.body)

C26_TrueIffStepsSucceeded ==
    (op = "AuthService.authenticate_user" /\ Ended) =>
        /\ result = "True" <=> AuthServiceStepsSucceeded
        /\ result = "True" =>
              current_user = with_tenant_id(response.body, get_tenant_id_from_token(access_token))

C26_UserChangesOnlyOnSuccessOrLogout ==
    [][current_user' # current_user =>
          \/ op' = "AuthService.logout"
          \/ op' = "AuthService.authenticate_user" /\ result' = "True"]_vars

C26_AuthenticatedIffUserSet ==
    /\ (op = "AuthService.is_authenticated" /\ Ended) =>
          (result = "True" <=> current_user # None)
    /\ (op = "AuthService.logout" /\ Ended) => current_user = None

C26_LegacyAuthService ==
    /\ []C26_TrueIffStepsSucceeded
    /\ C26_UserChangesOnlyOnSuccessOrLogout
    /\ []C26_AuthenticatedIffUserSet

C26_Witness ==
    /\ op = "AuthService.authenticate_user"
    /\ Ended
    /\ result = "False"
    /\ Called("requests.get")
    /\ current_user = Dict([displayName |-> "Alice", tenant_id |-> "tenant-1"])


(***************************************************************************)
(* C27.  Looking up a setting that is not defined raises AttributeError    *)
(* when it is read as an attribute, and returns the supplied default, None *)
(* when none is supplied, when it is read through get(key, default); a     *)
(* lookup, of a defined setting or not, leaves the stored configuration as *)
(* it was.                                                                 *)
(***************************************************************************)
C27_LookupOfUndefinedSetting ==
    [][op' \in LookupOps =>
          /\ config' = config
          /\ (op' = "ConfigService.__getattr__" /\ args'.name \notin DOMAIN config) =>
                 result' = "raise AttributeError"
          /\ (op' = "ConfigService.get" /\ args'.key \notin DOMAIN config) =>
                 /\ result' = "value"
                 /\ returned' = IF args'.default = NoValue THEN None ELSE args'.default]_vars

C27_Witness ==
    /\ op = "ConfigService.get"
    /\ Ended
    /\ args = [key |-> "APP_NAME", default |-> Str("fallback")]
    /\ returned = Str("fallback")
    /\ "APP_NAME" \notin DOMAIN config
    /\ "ALLOWED_TENANTS" \in DOMAIN config


(***************************************************************************)
(* C28.  For every comma-separated value of a list setting the loaded list *)
(* holds, in the original order, exactly the items between the commas with *)
(* the surrounding whitespace stripped and the empty items dropped.  So no *)
(* entry of a loaded list is empty or padded with whitespace, and a value  *)
(* that is empty or all blank gives the empty list, which allows no tenant.*)
(***************************************************************************)
\* the positions that delimit the items of cs: the commas and the two ends
Delimiters(cs) == {0, Len(cs) + 1} \cup { i \in 1..Len(cs) : cs[i] = "," }

\* the k-th delimiter, counted from 0
Delimiter(cs, k) ==
    CHOOSE p \in Delimiters(cs) : Cardinality({ q \in Delimiters(cs) : q < p }) = k

\* the k-th comma-separated item of cs
Item(cs, k) == SubSeq(cs, Delimiter(cs, k - 1) + 1, Delimiter(cs, k) - 1)

\* item from its first to its last character that is not whitespace
Trimmed(item) ==
    LET inked == { i \in 1..Len(item) : item[i] # " " }
    IN  IF inked = {} THEN << >>
        ELSE SubSeq(item, CHOOSE i \in inked : \A j \in inked : i <= j,
                          CHOOSE i \in inked : \A j \in inked : j <= i)

NotEmpty(item) == item # << >>

\* the list the raw value cs stands for
ItemsOf(cs) ==
    LET items == [ k \in 1..(Cardinality(Delimiters(cs)) - 1) |-> Trimmed(Item(cs, k)) ]
        kept  == SelectSeq(items, NotEmpty)
    IN  [ k \in 1..Len(kept) |-> Str(Join(kept[k])) ]

\* the raw value has nothing in it but blanks and commas
Blank(cs) == \A i \in 1..Len(cs) : cs[i] \in {" ", ","}

Padded(text) == Head(Chars(text)) = " " \/ Chars(text)[Len(Chars(text))] = " "

C28_ListsAreStrippedItems ==
    Constructed =>
        \A key \in list_keys \cap DOMAIN environ :
            LET raw == Chars(environ[key].str)
            IN  /\ key \in DOMAIN config
                /\ config[key] = ItemsOf(raw)
                /\ \A entry \in Elements(config[key]) :
                       entry.str # "" /\ ~Padded(entry.str)
                /\ Blank(raw) =>
                       /\ config[key] = << >>
                       /\ key = "ALLOWED_TENANTS" =>
                              \A t \in AskedTenants \cup {Str(""), Str(" ")} :
                                  ~is_allowed_tenant(t)

C28_Witness ==
    /\ Constructed
    /\ "ALLOWED_TENANTS" \in DOMAIN environ
    /\ environ["ALLOWED_TENANTS"] = Str(" a,")
    /\ "MSAL_SCOPES" \in DOMAIN environ
    /\ "ALLOWED_TENANTS" \in DOMAIN config
    /\ config["ALLOWED_TENANTS"] = << Str("a") >>
    /\ "MSAL_SCOPES" \in DOMAIN config
    /\ config["MSAL_SCOPES"] = << Str("b"), Str("a") >>

(***************************************************************************)
(* The legacy ConfigService (old_files/config_service.py).  The service    *)
(* starts without a configuration (_config is None); initialize() loads    *)
(* one with ConfigModel.load_from_env, and so does the config property     *)
(* when it finds none.  config holds _config: None, or the config_values   *)
(* of the loaded ConfigModel.                                              *)
(***************************************************************************)
legacy_boolean_keys == {"DEV", "DEBUG", "LOCAL_STORAGE"}

legacy_list_keys == {"ALLOWED_TENANTS", "ALLOWED_ORIGINS", "MSAL_SCOPES", "AOAI_DEPLOYMENT"}

legacy_dict_keys == {"API_SETTINGS"}

\* The environments the legacy service is started in.
LegacyEnvChoices ==
    [ DEV             : {NoValue, Str("0")},
      DEBUG           : {NoValue, Str("True")},
      API_SETTINGS    : {NoValue, Str("{\"timeout\": \"30\"}"), Str("{timeout")},
      ALLOWED_TENANTS : {NoValue} \cup { Str(Join(cs)) : cs \in TenantCharSeqs },
      AOAI_DEPLOYMENT : {NoValue, Str("a,b")} ]

LegacyEnvs == { Environment(choice) : choice \in LegacyEnvChoices }

\* ConfigModel.load_from_env, lines 65-90: the config_values of the model it
\* returns, or the ValueError of a dictionary setting that is not JSON
ConfigModel_load_from_env(env) ==
    IF \E k \in legacy_dict_keys \cap DOMAIN env : env[k].str \notin DOMAIN JsonTable
    THEN Raise("ValueError")
    ELSE [ k \in DOMAIN env |->
             IF k \in legacy_boolean_keys
             THEN [type |-> "bool", bool |-> lower(env[k].str) \in {"true", "1", "t"}]
             ELSE IF k \in legacy_list_keys
             THEN stripped_items(split(Chars(env[k].str)))
             ELSE IF k \in legacy_dict_keys
             THEN JsonTable[env[k].str]
             ELSE env[k] ]

\* ConfigService.__init__, lines 109-111: no configuration yet
InitLegacyConfig ==
    /\ environ \in LegacyEnvs
    /\ config = None
    /\ NothingCalled

\* initialize(), lines 119-124: the loaded configuration is stored; a load
\* that raises is logged and raised again, _config stays as it was
LegacyConfigService_initialize ==
    /\ StartCall("ConfigService.initialize")
    /\ LET loaded == ConfigModel_load_from_env(environ)
       IN  IF loaded = Raise("ValueError")
           THEN /\ EndCall("raise ValueError")
                /\ UNCHANGED config
           ELSE /\ config' = loaded
                /\ EndCall("None")
    /\ UNCHANGED << environ, args, returned, current_user, other, session, query_params,
                    redeemed, exchangeLog, auth_code, access_token, user_info, screen >>

\* the config property, lines 137-140: without a configuration it warns and
\* calls initialize(), whose exception passes through; then it returns _config
LegacyConfigService_config ==
    /\ pc = "idle"
    /\ op' = "ConfigService.config"
    /\ IF config = None
       THEN /\ calls' = << "initialize" >>
            /\ LET loaded == ConfigModel_load_from_env(environ)
               IN  IF loaded = Raise("ValueError")
                   THEN /\ UNCHANGED config
                        /\ returned' = None
                        /\ EndCall("raise ValueError")
                   ELSE /\ config' = loaded
                        /\ returned' = loaded
                        /\ EndCall("value")
       ELSE /\ calls' = << >>
            /\ returned' = config
            /\ EndCall("value")
            /\ UNCHANGED config
    /\ UNCHANGED << environ, args, current_user, other, session, query_params, redeemed,
                    exchangeLog, auth_code, access_token, tenant_id, response, user_info,
                    clear_idx, screen, session0, query_params0 >>

NextLegacyConfig ==
    \/ LegacyConfigService_initialize
    \/ LegacyConfigService_config

SpecLegacyConfig == InitLegacyConfig /\ [][NextLegacyConfig]_vars

(***************************************************************************)
(* C29.  In the legacy ConfigService, reading the config property before   *)
(* initialize() has been called raises RuntimeError.                       *)
(***************************************************************************)
C29_ReadBeforeInitializeRaises ==
    [][(op = "none" /\ op' = "ConfigService.config") => result' = "raise RuntimeError"]_vars

====
